---- MODULE Spec2Model ----
(***************************************************************************)
(* Model of the log-scraping and correlation engine of ec-debugger:        *)
(*   auto_resolve.py        match_component_to_violation                   *)
(*   extract_violations.py  parse_violation_block, extract_violations      *)
(*   extract_components.py  extract_components                             *)
(*                                                                         *)
(* A Python str is a sequence of lexical units (TLA+ strings). A unit is   *)
(* one character, or a fixed run of characters that always occurs whole    *)
(* in the inputs ("sha256:", "ImageRef:", "[Violation]"), so substring,    *)
(* prefix, split, replace and strip act on units as they act on            *)
(* characters. A file is the sequence of its lines; the line terminator    *)
(* is not kept in a line unless a definition says so.                      *)
(***************************************************************************)
EXTENDS Integers, Sequences, FiniteSets, TLC

VARIABLES
    \* match_component_to_violation
    violation_image_ref,   \* argument: the violation's image reference
    components,            \* argument: the list of component dicts
    match_pc,              \* "entry" | "loop" | "done"
    match_i,               \* position of the for loop in components (1-based)
    match_ret,             \* the returned value once match_pc = "done"
    \* the extractors' input
    lines,                 \* f.readlines(): the lines of the log file
    \* extract_violations / parse_violation_block
    ev_pc,                 \* "scan" (Scanning) | "block" (InBlock) | "done"
    idx,                   \* index of the line looked at next (1-based)
    violation,             \* the record being built while InBlock
    current_field,         \* name of the field being accumulated, or NoField
    current_value,         \* buffer of the field being accumulated
    violations,            \* the list extract_violations returns
    \* extract_components
    ec_pc,                 \* "find" | "count" | "parse" | "done"
    ec_i,                  \* index of the line the running loop looks at (1-based)
    json_start_idx,        \* index of the line that opens the JSON block
    json_lines,            \* the lines accumulated for the block
    brace_count,           \* the running brace counter
    ec_ret,                \* the outcome once ec_pc = "done": a value or an error
    \* extract_policy
    ep_pc,                 \* "find" | "collect" | "parse" | "done"
    ep_i,                  \* index of the line the running loop looks at (1-based)
    config_start_idx,      \* index of the line after the STEP-SHOW-CONFIG marker
    policy_json_lines,     \* json_lines of extract_policy: the stripped lines collected
    policy_brace_count,    \* brace_count of extract_policy
    started,               \* whether a line starting with '{' has been met
    ep_ret,                \* the outcome once ep_pc = "done": a value or an error
    \* extract_image_refs
    ir_pc,                 \* "find" | "scan" | "finish" | "done"
    ir_i,                  \* index of the line the running loop looks at (1-based)
    validate_start_idx,    \* index of the line after the STEP-VALIDATE marker
    image_refs,            \* the references collected so far
    in_components,         \* whether a COMPONENTS: line opened a sub-list
    component_list,        \* the references collected for the open sub-list
    seen_refs,             \* the set of references already collected
    ir_ret,                \* the outcome once ir_pc = "done": a value or an error
    \* main() of the extractor scripts
    script,                \* the script that runs, or NoScript
    argv,                  \* sys.argv[1:], each argument a sequence of units
    main_pc,               \* "idle" | "main" | "call" | "exited"
    exit_code,             \* the exit status once main_pc = "exited", else None
    stdout,                \* what main printed on the output stream, or None
    stderr,                \* the messages main printed on the error stream
    \* main() and generate_fix_proposals of auto_resolve.py
    resolve_pc,            \* "idle" | "main" | "violations" | "session" | "policy" | "fetch" | "components" | "group" | "loop" | "exited"
    log_arg,               \* sys.argv[1], or None without one
    scripts_in_cwd,        \* whether python3 finds extract_*.py in the working directory
    found_violations,      \* violations of main()
    session,               \* whether mellea.start_session() has been called
    policy_config,         \* policy_config of generate_fix_proposals
    grouped_violations,    \* the groups, as <<rule, violations>> pairs in insertion order
    group_idx,             \* index of the group the loop is at (1-based)
    instructed,            \* the user_variables of each m.instruct call so far
    proposals,             \* the list generate_fix_proposals builds
    resolve_exit,          \* the exit status once resolve_pc = "exited", else None
    resolve_out            \* the closing message main() printed, or None

mvars == <<violation_image_ref, components, match_pc, match_i, match_ret>>
vvars == <<ev_pc, idx, violation, current_field, current_value, violations>>
cvars == <<ec_pc, ec_i, json_start_idx, json_lines, brace_count, ec_ret>>
pvars == <<ep_pc, ep_i, config_start_idx, policy_json_lines, policy_brace_count, started, ep_ret>>
rvars == <<ir_pc, ir_i, validate_start_idx, image_refs, in_components, component_list, seen_refs, ir_ret>>
svars == <<script, argv, main_pc, exit_code, stdout, stderr>>
avars == <<resolve_pc, log_arg, scripts_in_cwd, found_violations, session, policy_config, grouped_violations, group_idx, instructed, proposals, resolve_exit, resolve_out>>
vars == <<mvars, lines, vvars, cvars, pvars, rvars, svars, avars>>
\* what the steps of one function leave alone
notMatch == <<lines, vvars, cvars, pvars, rvars, svars, avars>>
notViolations == <<mvars, cvars, pvars, rvars, svars, avars>>
notComponents == <<mvars, vvars, pvars, rvars, svars, avars>>
notPolicy == <<mvars, vvars, cvars, rvars, svars, avars>>
notImageRefs == <<mvars, vvars, cvars, pvars, svars, avars>>
notScripts == <<mvars, vvars, cvars, pvars, rvars, avars>>
notResolve == <<mvars, vvars, cvars, pvars, rvars, svars>>

(***************************************************************************)
(* Python values                                                           *)
(***************************************************************************)
None == [none |-> TRUE]
Str(s) == [str |-> s]
\* truthiness of an Optional[str]: None and '' are falsy
Truthy(o) == o # None /\ o.str # <<>>

Max(S) == CHOOSE x \in S : \A y \in S : y <= x
Min(S) == CHOOSE x \in S : \A y \in S : x <= y

(***************************************************************************)
(* str operations                                                          *)
(***************************************************************************)
\* s[i-1:].startswith(p), i 1-based
OccursAt(s, p, i) ==
    /\ i >= 1
    /\ i + Len(p) - 1 <= Len(s)
    /\ SubSeq(s, i, i + Len(p) - 1) = p

\* p in s
Contains(s, p) == \E i \in 1..(Len(s) + 1) : OccursAt(s, p, i)

\* s.split(sep)[-1] for a separator that cannot overlap itself
AfterLast(s, sep) ==
    LET occ == {i \in 1..Len(s) : OccursAt(s, sep, i)}
    IN  IF occ = {} THEN s ELSE SubSeq(s, Max(occ) + Len(sep), Len(s))

\* s.split(sep)[0]
BeforeFirst(s, sep) ==
    LET occ == {i \in 1..Len(s) : OccursAt(s, sep, i)}
    IN  IF occ = {} THEN s ELSE SubSeq(s, 1, Min(occ) - 1)

(***************************************************************************)
(* The state of a function that is not running                             *)
(***************************************************************************)
NoField == "None"

MatchIdle ==
    /\ violation_image_ref = <<>>
    /\ components = <<>>
    /\ match_pc = "done"
    /\ match_i = 0
    /\ match_ret = None

ViolationsIdle ==
    /\ ev_pc = "done"
    /\ idx = 1
    /\ violation = None
    /\ current_field = NoField
    /\ current_value = <<>>
    /\ violations = <<>>

ComponentsIdle ==
    /\ ec_pc = "done"
    /\ ec_i = 1
    /\ json_start_idx = 0
    /\ json_lines = <<>>
    /\ brace_count = 0
    /\ ec_ret = None

PolicyIdle ==
    /\ ep_pc = "done"
    /\ ep_i = 1
    /\ config_start_idx = 0
    /\ policy_json_lines = <<>>
    /\ policy_brace_count = 0
    /\ started = FALSE
    /\ ep_ret = None

ImageRefsIdle ==
    /\ ir_pc = "done"
    /\ ir_i = 1
    /\ validate_start_idx = 0
    /\ image_refs = <<>>
    /\ in_components = FALSE
    /\ component_list = <<>>
    /\ seen_refs = {}
    /\ ir_ret = None

ScriptsIdle ==
    /\ script = "None"
    /\ argv = <<>>
    /\ main_pc = "idle"
    /\ exit_code = None
    /\ stdout = None
    /\ stderr = <<>>

ResolveIdle ==
    /\ resolve_pc = "idle"
    /\ log_arg = None
    /\ scripts_in_cwd = TRUE
    /\ found_violations = <<>>
    /\ session = FALSE
    /\ policy_config = None
    /\ grouped_violations = <<>>
    /\ group_idx = 1
    /\ instructed = <<>>
    /\ proposals = <<>>
    /\ resolve_exit = None
    /\ resolve_out = None

(***************************************************************************)
(* match_component_to_violation (auto_resolve.py)                          *)
(***************************************************************************)
At == <<"@">>
AtSha256 == <<"@", "sha256:">>

\* the image references the arguments are drawn from
ImagePool ==
    { <<>>,
      <<"a">>,
      <<"a", "@", "A">>,
      <<"a", "@", "sha256:">>,
      <<"a", "@", "sha256:", "A">>,
      <<"a", "@", "sha256:", "B">>,
      <<"b", "@", "sha256:", "A">>,
      <<"a", "@", "sha256:", "B", "@", "sha256:", "A">> }

MaxComponents == 3

\* a component dict; one without the "containerImage" key is possible.
\* name stands for the dict's other content and tells the list's dicts apart.
ComponentDicts(n) ==
    {[name |-> n, containerImage |-> img] : img \in ImagePool} \cup {[name |-> n]}

ComponentLists ==
    UNION { {cs \in [1..n -> UNION {ComponentDicts(k) : k \in 1..n}] :
                \A k \in 1..n : cs[k] \in ComponentDicts(k)} : n \in 0..MaxComponents }

\* component.get("containerImage", "")
ContainerImage(component) ==
    IF "containerImage" \in DOMAIN component THEN component.containerImage ELSE <<>>

\* lines 88-89: not violation_image_ref or not components
EmptyInput(ref, comps) == ref = <<>> \/ comps = <<>>

\* lines 91-93
ViolationDigest(ref) ==
    IF Contains(ref, AtSha256) THEN Str(AfterLast(ref, AtSha256)) ELSE None

\* line 100
ExactRule(ref, image) == image = ref

\* lines 103-106
DigestRule(ref, image) ==
    /\ Truthy(ViolationDigest(ref))
    /\ Contains(image, AtSha256)
    /\ AfterLast(image, AtSha256) = ViolationDigest(ref).str

NameDigestRuleNameOnly(ref, image) ==
    LET violation_image_name == IF Contains(ref, At) THEN BeforeFirst(ref, At) ELSE ref
        component_image_name == IF Contains(image, At) THEN BeforeFirst(image, At) ELSE image
    IN  violation_image_name = component_image_name
\* lines 108-112
NameDigestRule(ref, image) ==
    LET violation_image_name == IF Contains(ref, At) THEN BeforeFirst(ref, At) ELSE ref
        component_image_name == IF Contains(image, At) THEN BeforeFirst(image, At) ELSE image
    IN  /\ violation_image_name = component_image_name
        /\ Truthy(ViolationDigest(ref))
        /\ Contains(image, ViolationDigest(ref).str)

\* the body of the for loop decides to return this component
ComponentMatches(ref, component) ==
    LET image == ContainerImage(component)
    IN  /\ image # <<>>
        /\ \/ ExactRule(ref, image)
           \/ DigestRule(ref, image)
           \/ NameDigestRule(ref, image)

ComponentAtReversed(comps, i) == comps[Len(comps) + 1 - i]
\* the component the i-th iteration of "for component in components" visits
ComponentAt(comps, i) == comps[i]

MatchedImageOnly(component) == [containerImage |-> ContainerImage(component)]
\* "return component": the dict of the list itself
MatchedResult(component) == component

MatchEntry ==
    /\ match_pc = "entry"
    /\ IF EmptyInput(violation_image_ref, components)
       THEN /\ match_pc' = "done"
            /\ match_ret' = None
            /\ match_i' = match_i
       ELSE /\ match_pc' = "loop"
            /\ match_i' = 1
            /\ match_ret' = match_ret
    /\ UNCHANGED <<violation_image_ref, components, notMatch>>

\* one iteration of the for loop that returns
MatchReturn ==
    /\ match_pc = "loop"
    /\ match_i <= Len(components)
    /\ ComponentMatches(violation_image_ref, ComponentAt(components, match_i))
    /\ match_ret' = MatchedResult(ComponentAt(components, match_i))
    /\ match_pc' = "done"
    /\ UNCHANGED <<violation_image_ref, components, match_i, notMatch>>

\* one iteration of the for loop that goes on (continue, or no rule succeeds)
MatchContinue ==
    /\ match_pc = "loop"
    /\ match_i <= Len(components)
    /\ ~ComponentMatches(violation_image_ref, ComponentAt(components, match_i))
    /\ match_i' = match_i + 1
    /\ UNCHANGED <<violation_image_ref, components, match_pc, match_ret, notMatch>>

\* the loop is exhausted: return None
MatchExhausted ==
    /\ match_pc = "loop"
    /\ match_i > Len(components)
    /\ match_ret' = None
    /\ match_pc' = "done"
    /\ UNCHANGED <<violation_image_ref, components, match_i, notMatch>>

InitMatch ==
    /\ violation_image_ref \in ImagePool
    /\ components \in ComponentLists
    /\ match_pc = "entry"
    /\ match_i = 0
    /\ match_ret = None
    /\ lines = <<>>
    /\ ViolationsIdle
    /\ ComponentsIdle
    /\ PolicyIdle
    /\ ImageRefsIdle
    /\ ScriptsIdle
    /\ ResolveIdle

NextMatch == MatchEntry \/ MatchReturn \/ MatchContinue \/ MatchExhausted

SpecMatch == InitMatch /\ [][NextMatch]_vars

(***************************************************************************)
(* Claims about match_component_to_violation, checked under SpecMatch      *)
(***************************************************************************)
MatchingIndices ==
    {i \in 1..Len(components) : ComponentMatches(violation_image_ref, components[i])}

\* image equals the reference exactly (rule 1)
IsExactMatch(image) == image # <<>> /\ ExactRule(violation_image_ref, image)
\* image matches the reference by digest equality (rule 2) and by no other rule
IsDigestOnlyMatch(image) ==
    /\ image # <<>>
    /\ ~ExactRule(violation_image_ref, image)
    /\ DigestRule(violation_image_ref, image)
    /\ ~NameDigestRule(violation_image_ref, image)

\* C1: when the list holds a component whose containerImage equals imageRef
\* exactly and another one that matches only by digest equality, the component
\* returned is the exactly-equal one, whatever the order of the two in the list.
C1_ExactMatchWins ==
    (/\ match_pc = "done"
     /\ \E i, j \in 1..Len(components) :
            /\ i # j
            /\ IsExactMatch(ContainerImage(components[i]))
            /\ IsDigestOnlyMatch(ContainerImage(components[j])))
    => (match_ret # None /\ ContainerImage(match_ret) = violation_image_ref)

\* C2: components are visited in list order, and the component returned is the
\* one with the smallest list index among those that match imageRef by any of
\* the three rules (None when there is none).
C2_FirstMatchInListOrder ==
    match_pc = "done" =>
        IF MatchingIndices = {}
        THEN match_ret = None
        ELSE match_ret = components[Min(MatchingIndices)]

\* several components match and the first of them has been returned
C2_Witness ==
    /\ match_pc = "done"
    /\ Cardinality(MatchingIndices) >= 2
    /\ Min(MatchingIndices) > 1
    /\ match_ret = components[Min(MatchingIndices)]

\* C3: the result is None whenever imageRef is empty or the component list is
\* empty; in every other case it is None or an element of the given list.
C3_NoneOrListElement ==
    match_pc = "done" =>
        /\ (violation_image_ref = <<>> \/ components = <<>>) => match_ret = None
        /\ match_ret = None \/ \E i \in 1..Len(components) : match_ret = components[i]

\* an empty imageRef against a list holding a component with an image
C3_Witness ==
    /\ match_pc = "done"
    /\ violation_image_ref = <<>>
    /\ \E i \in 1..Len(components) : ContainerImage(components[i]) # <<>>
    /\ match_ret = None

\* the text after a '@sha256:' separator of s that holds no further separator
DigestsOf(s) ==
    {d \in {SubSeq(s, i + Len(AtSha256), Len(s)) :
                i \in {j \in 1..Len(s) : OccursAt(s, AtSha256, j)}} :
        ~Contains(d, AtSha256)}

\* the text of s before any '@'
NamePart(s) ==
    CHOOSE p \in {SubSeq(s, 1, n) : n \in 0..Len(s)} :
        /\ \A k \in 1..Len(p) : p[k] # "@"
        /\ Len(p) = Len(s) \/ s[Len(p) + 1] = "@"

\* one of the three rules of the matcher relates the reference and the image
SatisfiesARule(ref, image) ==
    \/ image = ref
    \/ DigestsOf(ref) # {} /\ DigestsOf(image) = DigestsOf(ref)
    \/ /\ NamePart(ref) = NamePart(image)
       /\ \E d \in DigestsOf(ref) : Contains(image, d)

\* the reference carries a non-empty sha256 digest
HasNonEmptyDigest(ref) == \E d \in DigestsOf(ref) : d # <<>>

\* C22: a component that is returned has a non-empty containerImage and
\* satisfies one of the three rules (exact equality, equal sha256 digests, equal
\* name parts with the reference's digest inside the image); when the reference
\* carries no non-empty sha256 digest, a component is returned only if its image
\* equals the reference exactly.
C22_NoFuzzyMatching ==
    (match_pc = "done" /\ match_ret # None) =>
        /\ ContainerImage(match_ret) # <<>>
        /\ SatisfiesARule(violation_image_ref, ContainerImage(match_ret))
        /\ ~HasNonEmptyDigest(violation_image_ref)
               => ContainerImage(match_ret) = violation_image_ref

\* a component returned by the name-plus-digest rule alone, after a component
\* with the same name part and no digest was passed over
C22_Witness ==
    /\ match_pc = "done"
    /\ match_ret # None
    /\ ContainerImage(match_ret) # violation_image_ref
    /\ DigestsOf(ContainerImage(match_ret)) = {}
    /\ HasNonEmptyDigest(violation_image_ref)
    /\ \E i \in 1..Len(components) :
           /\ ContainerImage(components[i]) = NamePart(violation_image_ref)
           /\ components[i] # match_ret

(***************************************************************************)
(* More str operations                                                     *)
(***************************************************************************)
\* the units str.strip() removes; "\n" is the line break '\n'.join puts in
Whitespace == {" ", "\n"}

\* s.strip()
Strip(s) ==
    LET keep == {i \in 1..Len(s) : s[i] \notin Whitespace}
    IN  IF keep = {} THEN <<>> ELSE SubSeq(s, Min(keep), Max(keep))

\* s.startswith(p)
StartsWith(s, p) == OccursAt(s, p, 1)

\* s.replace(u, '') for a unit u: every occurrence goes
RECURSIVE ReplaceAll(_, _)
ReplaceAll(s, u) ==
    IF s = <<>> THEN <<>>
    ELSE IF Head(s) = u THEN ReplaceAll(Tail(s), u)
    ELSE <<Head(s)>> \o ReplaceAll(Tail(s), u)

\* '\n'.join(vs)
RECURSIVE Join(_)
Join(vs) ==
    IF vs = <<>> THEN <<>>
    ELSE IF Len(vs) = 1 THEN vs[1]
    ELSE vs[1] \o <<"\n">> \o Join(Tail(vs))

(***************************************************************************)
(* parse_violation_block, extract_violations (extract_violations.py)       *)
(***************************************************************************)
\* the labels of the if/elif chain, in its order, and the dict key of each
Labels == <<"ImageRef:", "Reason:", "Term:", "Title:", "Description:", "Solution:">>
FieldNames == <<"image_ref", "reason", "term", "title", "description", "solution">>
Keys == {"rule"} \cup {FieldNames[k] : k \in 1..Len(FieldNames)}

\* number of whitespace units of s from position i on
RECURSIVE SpaceRun(_, _)
SpaceRun(s, i) ==
    IF i <= Len(s) /\ s[i] \in Whitespace THEN 1 + SpaceRun(s, i + 1) ELSE 0

\* re.match(sigil \s+ \[Violation\] \s+ (.+), line): None, or group(1).
\* "X" is the sigil character. \s+ is greedy and gives back one unit to (.+)
\* only when nothing else is left for it.
ViolationMatchLoose(line) ==
    LET w1 == SpaceRun(line, 2)
        w2 == SpaceRun(line, 3 + w1)
    IN  IF /\ Len(line) >= 1 /\ line[1] = "X"
           /\ Len(line) >= 2 + w1 /\ line[2 + w1] = "[Violation]"
        THEN Str(SubSeq(line, 3 + w1 + w2, Len(line)))
        ELSE None
ViolationMatch(line) ==
    LET w1 == SpaceRun(line, 2)
        w2 == SpaceRun(line, 3 + w1)
        rest == SubSeq(line, 3 + w1 + w2, Len(line))
    IN  IF /\ Len(line) >= 1 /\ line[1] = "X"
           /\ w1 >= 1
           /\ Len(line) >= 2 + w1 /\ line[2 + w1] = "[Violation]"
           /\ w2 >= 1
        THEN IF rest # <<>> THEN Str(rest)
             ELSE IF w2 >= 2 THEN Str(<<line[Len(line)]>>)
             ELSE None
        ELSE None

\* lines 31-39
NewViolation(match) ==
    [k \in Keys |-> IF k = "rule" THEN Str(Strip(match.str)) ELSE None]

\* position in the if/elif chain of the branch taken for a stripped line; 0: else
LabelIndex(line) ==
    LET hit == {k \in 1..Len(Labels) : StartsWith(line, <<Labels[k]>>)}
    IN  IF hit = {} THEN 0 ELSE Min(hit)

FieldOfShifted(k) == FieldNames[(k % Len(FieldNames)) + 1]
\* the key the k-th branch assigns to current_field
FieldOf(k) == FieldNames[k]

\* line.replace(label, '').strip(): the first element of the new buffer
Seed(line, k) == Strip(ReplaceAll(line, Labels[k]))

\* '\n'.join(current_value).strip()
Stored(value) == Strip(Join(value))

\* Flush that adds the buffer to the value the field already holds
FlushAppending(v, field, value) ==
    IF field # NoField /\ value # <<>>
    THEN [v EXCEPT ![field] = Str(IF v[field] = None THEN Stored(value)
                                  ELSE v[field].str \o <<"\n">> \o Stored(value))]
    ELSE v

\* if current_field and current_value: violation[current_field] = ...
Flush(v, field, value) ==
    IF field # NoField /\ value # <<>>
    THEN [v EXCEPT ![field] = Str(Stored(value))]
    ELSE v

\* truth value of a dict
DictTruthy(d) == d # None /\ DOMAIN d # {}

\* extract_violations calls parse_violation_block on a line that starts no block
ScanSkip ==
    /\ ev_pc = "scan"
    /\ idx <= Len(lines)
    /\ ViolationMatch(Strip(lines[idx])) = None
    /\ idx' = idx + 1
    /\ UNCHANGED <<lines, ev_pc, violation, current_field, current_value, violations>>
    /\ UNCHANGED notViolations

\* parse_violation_block is called on a start line (lines 26-43)
OpenBlock ==
    /\ ev_pc = "scan"
    /\ idx <= Len(lines)
    /\ ViolationMatch(Strip(lines[idx])) # None
    /\ violation' = NewViolation(ViolationMatch(Strip(lines[idx])))
    /\ idx' = idx + 1
    /\ current_field' = NoField
    /\ current_value' = <<>>
    /\ ev_pc' = "block"
    /\ UNCHANGED <<lines, violations>>
    /\ UNCHANGED notViolations

\* one iteration of the while loop on a label line (lines 53-82)
BlockLabel ==
    /\ ev_pc = "block"
    /\ idx <= Len(lines)
    /\ LET line == Strip(lines[idx])
           k == LabelIndex(line)
       IN  /\ line # <<>>
           /\ k # 0
           /\ violation' = Flush(violation, current_field, current_value)
           /\ current_field' = FieldOf(k)
           /\ current_value' = <<Seed(line, k)>>
    /\ idx' = idx + 1
    /\ UNCHANGED <<lines, ev_pc, violations>>
    /\ UNCHANGED notViolations

\* BlockContinuation with a test for a start line that ends the block
BlockContinuationClosingAtStart ==
    /\ ev_pc = "block"
    /\ idx <= Len(lines)
    /\ LET line == Strip(lines[idx])
       IN  /\ line # <<>>
           /\ LabelIndex(line) = 0
           /\ IF ViolationMatch(line) # None
              THEN /\ violations' = Append(violations,
                                           Flush(violation, current_field, current_value))
                   /\ violation' = None
                   /\ current_value' = <<>>
                   /\ current_field' = NoField
                   /\ ev_pc' = "scan"
                   /\ idx' = idx
              ELSE /\ IF current_field # NoField \/ Truthy(violation["reason"])
                      THEN /\ current_value' = Append(current_value, line)
                           /\ violation' = violation
                      ELSE /\ violation' = [violation EXCEPT !["reason"] = Str(line)]
                           /\ current_value' = current_value
                   /\ idx' = idx + 1
                   /\ UNCHANGED <<ev_pc, current_field, violations>>
    /\ UNCHANGED lines
    /\ UNCHANGED notViolations

\* one iteration of the while loop on an unlabeled line (lines 83-92)
BlockContinuation ==
    /\ ev_pc = "block"
    /\ idx <= Len(lines)
    /\ LET line == Strip(lines[idx])
       IN  /\ line # <<>>
           /\ LabelIndex(line) = 0
           /\ IF current_field # NoField
              THEN /\ current_value' = Append(current_value, line)
                   /\ violation' = violation
              ELSE IF ~Truthy(violation["reason"])
              THEN /\ violation' = [violation EXCEPT !["reason"] = Str(line)]
                   /\ current_value' = current_value
              ELSE /\ current_value' = Append(current_value, line)
                   /\ violation' = violation
    /\ idx' = idx + 1
    /\ UNCHANGED <<lines, ev_pc, current_field, violations>>
    /\ UNCHANGED notViolations

\* CloseBlock without lines 97-98
CloseBlockNoFlush ==
    /\ ev_pc = "block"
    /\ IF idx <= Len(lines) THEN Strip(lines[idx]) = <<>> ELSE TRUE
    /\ violations' = Append(violations, violation)
    /\ violation' = None
    /\ current_field' = NoField
    /\ current_value' = <<>>
    /\ ev_pc' = "scan"
    /\ UNCHANGED <<lines, idx>>
    /\ UNCHANGED notViolations

\* the while loop ends at a blank line or at the end of the input; the last
\* field is stored, the block is returned and extract_violations appends it
\* and goes on from the returned index (lines 96-100, 112-115)
CloseBlock ==
    /\ ev_pc = "block"
    /\ IF idx <= Len(lines) THEN Strip(lines[idx]) = <<>> ELSE TRUE
    /\ LET returned == Flush(violation, current_field, current_value)
       IN  violations' = IF DictTruthy(returned)
                         THEN Append(violations, returned)
                         ELSE violations
    /\ violation' = None
    /\ current_field' = NoField
    /\ current_value' = <<>>
    /\ ev_pc' = "scan"
    /\ UNCHANGED <<lines, idx>>
    /\ UNCHANGED notViolations

\* the loop of extract_violations ends: return violations
ScanDone ==
    /\ ev_pc = "scan"
    /\ idx > Len(lines)
    /\ ev_pc' = "done"
    /\ UNCHANGED <<lines, idx, violation, current_field, current_value, violations>>
    /\ UNCHANGED notViolations

MaxLines == 4

\* the lines a log is made of
ViolationLinePool ==
    { <<" ">>,
      <<"a">>,
      <<"X", " ", "[Violation]">>,
      <<"X", " ", "[Violation]", " ", "r">>,
      <<" ", "X", " ", " ", "[Violation]", " ", "q", " ">>,
      <<"ImageRef:", " ", "i">>,
      <<"Reason:">>,
      <<" ", "Reason:", " ", "b", " ", "Reason:", "c", " ">>,
      <<"Term:", "t">>,
      <<"Solution:", " ", "s", " ">> }

LogsOf(pool) == UNION {[1..n -> pool] : n \in 0..MaxLines}

InitViolations ==
    /\ lines \in LogsOf(ViolationLinePool)
    /\ ev_pc = "scan"
    /\ idx = 1
    /\ violation = None
    /\ current_field = NoField
    /\ current_value = <<>>
    /\ violations = <<>>
    /\ MatchIdle
    /\ ComponentsIdle
    /\ PolicyIdle
    /\ ImageRefsIdle
    /\ ScriptsIdle
    /\ ResolveIdle

NextViolations ==
    ScanSkip \/ OpenBlock \/ BlockLabel \/ BlockContinuation \/ CloseBlock \/ ScanDone

SpecViolations == InitViolations /\ [][NextViolations]_vars

(***************************************************************************)
(* The field-block grammar, read off the lines of the log: what a start    *)
(* line is, which start lines open a record, and which lines are a         *)
(* record's block. The claims compare the parser with it.                  *)
(***************************************************************************)
\* <marker> [Violation] <rule text>, surrounding whitespace aside
IsStartLine(line) ==
    LET s == Strip(line)
    IN  /\ Len(s) >= 5
        /\ s[1] = "X"
        /\ \E i \in 3..Len(s) :
              /\ s[i] = "[Violation]"
              /\ \A k \in 2..(i - 1) : s[k] \in Whitespace
              /\ \E j \in (i + 2)..Len(s) :
                    /\ \A k \in (i + 1)..(j - 1) : s[k] \in Whitespace
                    /\ s[j] \notin Whitespace

\* the rule text of a start line
RuleText(line) ==
    LET s == Strip(line)
        i == CHOOSE i \in 3..Len(s) : s[i] = "[Violation]"
        j == Min({j \in (i + 1)..Len(s) : s[j] \notin Whitespace})
    IN  SubSeq(s, j, Len(s))

IsBlankLine(line) == \A k \in 1..Len(line) : line[k] \in Whitespace

\* the label a line starts with, whitespace aside ("" when it starts with none)
LabelSet == {"ImageRef:", "Reason:", "Term:", "Title:", "Description:", "Solution:"}
LabelOfLine(line) ==
    LET s == Strip(line)
    IN  IF s # <<>> /\ s[1] \in LabelSet THEN s[1] ELSE ""
KeyOfLabel(label) ==
    CASE label = "ImageRef:" -> "image_ref"
      [] label = "Reason:" -> "reason"
      [] label = "Term:" -> "term"
      [] label = "Title:" -> "title"
      [] label = "Description:" -> "description"
      [] label = "Solution:" -> "solution"

\* index of the line that ends the block opened at line o: the first blank
\* line after o, or one past the last line
BlockEnd(o) ==
    LET blanks == {i \in (o + 1)..Len(lines) : IsBlankLine(lines[i])}
    IN  IF blanks = {} THEN Len(lines) + 1 ELSE Min(blanks)

\* the block of the record opened at line o: its lines after the start line
BlockOf(o) == (o + 1)..(BlockEnd(o) - 1)

\* indices of the start lines met in Scanning from line i on, in source order
RECURSIVE OpenersFrom(_)
OpenersFrom(i) ==
    IF i > Len(lines) THEN <<>>
    ELSE IF IsStartLine(lines[i]) THEN <<i>> \o OpenersFrom(BlockEnd(i))
    ELSE OpenersFrom(i + 1)
Openers == OpenersFrom(1)

\* lines of the block opened at o that carry the given label
LabelLines(o, label) == {i \in BlockOf(o) : LabelOfLine(lines[i]) = label}

\* the unlabeled lines that directly follow line i inside the block opened at o
RECURSIVE ContinuationsAfter(_, _)
ContinuationsAfter(o, i) ==
    IF (i + 1) \in BlockOf(o) /\ LabelOfLine(lines[i + 1]) = ""
    THEN <<Strip(lines[i + 1])>> \o ContinuationsAfter(o, i + 1)
    ELSE <<>>

\* the value text of label line i of the block opened at o: what follows the
\* label on the line, then the continuation lines, newline-joined and trimmed
SourceValue(o, i) ==
    Strip(Join(<<Tail(Strip(lines[i]))>> \o ContinuationsAfter(o, i)))

(***************************************************************************)
(* Claims about extract_violations, checked under SpecViolations           *)
(***************************************************************************)
\* C4: for every line sequence that contains no violation-start line,
\* extract_violations returns the empty list and raises no error: it never
\* opens a block, can always take its next step, and ends with [].
C4_NoStartLineNoViolations ==
    (\A i \in 1..Len(lines) : ~IsStartLine(lines[i])) =>
        /\ violations = <<>>
        /\ ev_pc \in {"scan", "done"}
        /\ ev_pc # "done" => ENABLED NextViolations

\* a log of label lines and of an incomplete start line has been scanned
C4_Witness ==
    /\ ev_pc = "done"
    /\ violations = <<>>
    /\ \A i \in 1..Len(lines) : ~IsStartLine(lines[i])
    /\ \E i \in 1..Len(lines) : lines[i] # <<>> /\ lines[i][1] = "X"
    /\ \E i \in 1..Len(lines) : LabelOfLine(lines[i]) # ""

\* C5: for every labeled field of an emitted violation, the stored value is
\* the remainder of the (last) label line after the label prefix followed by
\* its continuation lines, joined by single newlines and trimmed; nothing else
\* of the source value is removed, also when the value contains the label.
C5_FieldRoundTrip ==
    ev_pc = "done" =>
        \A k \in 1..Len(violations) : \A label \in LabelSet :
            LET o == Openers[k]
                at == LabelLines(o, label)
            IN  at # {} =>
                    violations[k][KeyOfLabel(label)] = Str(SourceValue(o, Max(at)))

OptionalKeys == {"image_ref", "reason", "term", "title", "description", "solution"}

\* number of records opened by the start lines before line i
OpenedBefore(i) == Cardinality({k \in 1..Len(Openers) : Openers[k] < i})

\* C6: every record opened by a start line is emitted exactly once, with its
\* pending field buffer flushed into it, whether a blank line or the end of
\* input closes the block; closing leaves the parser in Scanning, later start
\* lines open new records, and the violations come out in source order.
C6_EmittedOnceInOrder ==
    /\ [](/\ ev_pc \in {"scan", "done"} => Len(violations) = OpenedBefore(idx)
          /\ ev_pc = "block" => Len(violations) + 1 = OpenedBefore(idx)
          /\ \A k \in 1..Len(violations) :
                violations[k]["rule"] = Str(RuleText(lines[Openers[k]]))
          /\ ev_pc = "done" => Len(violations) = Len(Openers))
    /\ [][(ev_pc = "block" /\ ev_pc' # "block") =>
            /\ ev_pc' = "scan"
            /\ Len(violations') = Len(violations) + 1
            /\ SubSeq(violations', 1, Len(violations)) = violations
            /\ LET emitted == violations'[Len(violations')]
               IN  \A key \in Keys :
                      emitted[key] = IF key = current_field
                                     THEN Str(Strip(Join(current_value)))
                                     ELSE violation[key]]_vars

\* two records, the first closed by a blank line with a field pending, the
\* second by the end of input
C6_Witness ==
    /\ ev_pc = "done"
    /\ Len(violations) = 2
    /\ violations[1]["rule"] # violations[2]["rule"]
    /\ \E key \in OptionalKeys : violations[1][key] # None
    /\ ~IsBlankLine(lines[Len(lines)])

\* C7: in every emitted violation image_ref, term, title, description and
\* solution are set exactly if their label line occurs in the block, and
\* reason exactly if a Reason: label occurs or the line directly under the
\* start line is unlabeled; a label line changes no field but its own and the
\* one being flushed. So a block without label lines leaves the five unset,
\* and a block of only ImageRef: and Reason: sets exactly those two.
C7_FieldsSetOnlyByOwnLabel ==
    /\ [](\A k \in 1..Len(violations) : \A label \in LabelSet :
            LET o == Openers[k]
                labeled == LabelLines(o, label) # {}
                unlabeledFirst == (o + 1) \in BlockOf(o) /\ LabelOfLine(lines[o + 1]) = ""
            IN  violations[k][KeyOfLabel(label)] # None
                    <=> (labeled \/ (label = "Reason:" /\ unlabeledFirst)))
    /\ [][(ev_pc = "block" /\ idx <= Len(lines) /\ LabelOfLine(lines[idx]) # "") =>
            \A key \in Keys \ {current_field, KeyOfLabel(LabelOfLine(lines[idx]))} :
                violation'[key] = violation[key]]_vars

\* a block of an ImageRef: and a Reason: line has been emitted
C7_Witness ==
    /\ ev_pc = "done"
    /\ \E k \in 1..Len(violations) :
          /\ {LabelOfLine(lines[i]) : i \in BlockOf(Openers[k])} = {"ImageRef:", "Reason:"}
          /\ {key \in OptionalKeys : violations[k][key] # None} = {"image_ref", "reason"}

RuleIsPresent(v) ==
    /\ v["rule"] # None
    /\ v["rule"].str # <<>>
    /\ v["rule"].str = Strip(v["rule"].str)

\* C8 as stated: rule is a non-empty string without surrounding whitespace,
\* and every optional field is unset or a non-empty string.
C8_NoEmptyOptionalField ==
    \A k \in 1..Len(violations) :
        /\ RuleIsPresent(violations[k])
        /\ \A key \in OptionalKeys :
              violations[k][key] = None \/ violations[k][key].str # <<>>

\* the last line of the block opened at o that carries the label holds nothing
\* but the label and whitespace, and no continuation line follows it
BareLabel(o, label) ==
    /\ LabelLines(o, label) # {}
    /\ LET i == Max(LabelLines(o, label))
       IN  /\ \A k \in 1..Len(lines[i]) : lines[i][k] \in Whitespace \cup {label}
           /\ ContinuationsAfter(o, i) = <<>>

\* C8 (amended): rule is a non-empty string without surrounding whitespace;
\* an optional field is unset or a non-empty string, or else the empty string
\* when the last line carrying its label in the block holds no value text and
\* has no continuation line.
C8_EmptyOnlyForBareLabel ==
    \A k \in 1..Len(violations) :
        /\ RuleIsPresent(violations[k])
        /\ \A label \in LabelSet :
              \/ violations[k][KeyOfLabel(label)] = None
              \/ violations[k][KeyOfLabel(label)].str # <<>>
              \/ BareLabel(Openers[k], label)

\* a violation whose block has a bare Reason: line has been emitted
C8_Witness ==
    /\ ev_pc = "done"
    /\ \E k \in 1..Len(violations) :
          /\ violations[k]["reason"] = Str(<<>>)
          /\ BareLabel(Openers[k], "Reason:")

\* line i is met in the Scanning state: every start line before it is
\* separated from it by a blank line
MetInScanning(i) ==
    \A j \in 1..(i - 1) :
        IsStartLine(lines[j]) => \E b \in (j + 1)..(i - 1) : IsBlankLine(lines[b])

\* C23: a start line met while a block is open is handled as a continuation
\* line of the open record: the parser stays in the block, emits nothing, keeps
\* the record's rule and puts the line into the reason or the field buffer; so
\* the number of emitted violations is the number of start lines met in the
\* Scanning state.
C23_StartLineInBlockIsContinuation ==
    /\ [][(ev_pc = "block" /\ idx <= Len(lines) /\ IsStartLine(lines[idx])) =>
            /\ ev_pc' = "block"
            /\ idx' = idx + 1
            /\ violations' = violations
            /\ violation'["rule"] = violation["rule"]
            /\ current_field' = current_field
            /\ \/ /\ violation'["reason"] = Str(Strip(lines[idx]))
                  /\ current_value' = current_value
               \/ /\ current_value' = Append(current_value, Strip(lines[idx]))
                  /\ violation' = violation]_vars
    /\ [](ev_pc = "done" =>
            Len(violations) =
                Cardinality({i \in 1..Len(lines) :
                                IsStartLine(lines[i]) /\ MetInScanning(i)}))

\* two start lines with no blank line between them gave one violation, whose
\* reason is the second start line
C23_Witness ==
    /\ ev_pc = "done"
    /\ Len(violations) = 1
    /\ \E i \in 2..Len(lines) :
          /\ IsStartLine(lines[i - 1])
          /\ IsStartLine(lines[i])
          /\ violations[1]["reason"] = Str(Strip(lines[i]))
          /\ violations[1]["rule"] = Str(RuleText(lines[i - 1]))

\* a value text with the units that are the label itself left out, trimmed
LabelFree(value, label) == Strip(SelectSeq(value, LAMBDA u : u # label))

\* the label stands on several lines of the block opened at o, or it is
\* Reason: and the line directly under the start line is unlabeled
SetMoreThanOnce(o, label) ==
    /\ LabelLines(o, label) # {}
    /\ \/ Cardinality(LabelLines(o, label)) >= 2
       \/ /\ label = "Reason:"
          /\ (o + 1) \in BlockOf(o)
          /\ LabelOfLine(lines[o + 1]) = ""

\* C25: when a label occurs more than once in a block, or a Reason: label
\* follows a reason taken from the unlabeled line under the start line, the
\* field of the emitted violation holds the value of the last occurrence alone
\* (its label line and the continuation lines after it); nothing of an earlier
\* value is kept. Occurrences of the label inside the value are left out of the
\* comparison.
C25_LastOccurrenceWins ==
    ev_pc = "done" =>
        \A k \in 1..Len(violations) : \A label \in LabelSet :
            SetMoreThanOnce(Openers[k], label) =>
                /\ violations[k][KeyOfLabel(label)] # None
                /\ LabelFree(violations[k][KeyOfLabel(label)].str, label)
                       = LabelFree(SourceValue(Openers[k],
                                               Max(LabelLines(Openers[k], label))), label)

\* an emitted violation whose block has two Reason: lines with different
\* values, the second one not empty
C25_Witness ==
    /\ ev_pc = "done"
    /\ \E k \in 1..Len(violations) :
          LET at == LabelLines(Openers[k], "Reason:")
          IN  /\ Cardinality(at) = 2
              /\ SourceValue(Openers[k], Min(at)) # SourceValue(Openers[k], Max(at))
              /\ violations[k]["reason"] # None
              /\ violations[k]["reason"].str # <<>>

\* C19: an unlabeled non-blank line met when no field has been opened and
\* reason is unset becomes the whole reason; every other unlabeled non-blank
\* line is appended to the buffer, and a buffer that holds lines is flushed,
\* at the next label line or at the close of the block, into the field it
\* belongs to: no continuation line of a block is dropped.
C19_ContinuationLinesKept ==
    [][ev_pc = "block" =>
        IF idx <= Len(lines) /\ ~IsBlankLine(lines[idx]) /\ LabelOfLine(lines[idx]) = ""
        THEN IF current_field = NoField /\ violation["reason"] = None
             THEN violation'["reason"] = Str(Strip(lines[idx]))
             ELSE current_value' = Append(current_value, Strip(lines[idx]))
        ELSE current_value # <<>> =>
                /\ current_field # NoField
                /\ LET target == IF ev_pc' = "block"
                                 THEN violation'
                                 ELSE violations'[Len(violations')]
                   IN  target[current_field] = Str(Strip(Join(current_value)))]_vars

(***************************************************************************)
(* json.loads on a text of units: the structural characters, the string    *)
(* quote Q, whitespace, and plain characters. Objects, arrays and strings   *)
(* are parsed; a string may hold any unit but Q and a line break. A value   *)
(* is [kind, v]: kind "str" (v its units), "arr" (v its elements) or "obj"  *)
(* (v its <<key, value>> pairs in source order).                            *)
(***************************************************************************)
Q == "\""
JsonFail == [ok |-> FALSE]
JsonOk(val, pos) == [ok |-> TRUE, val |-> val, pos |-> pos]

\* first position at or after i that holds no whitespace
SkipSpace(t, i) == i + SpaceRun(t, i)

\* a string literal whose opening quote is at i
ParseString(t, i) ==
    LET closing == {j \in (i + 1)..Len(t) : t[j] = Q}
    IN  IF i > Len(t) \/ t[i] # Q \/ closing = {} THEN JsonFail
        ELSE LET j == Min(closing)
                 body == SubSeq(t, i + 1, j - 1)
             IN  IF \E k \in 1..Len(body) : body[k] = "\n" THEN JsonFail
                 ELSE JsonOk([kind |-> "str", v |-> body], j + 1)

RECURSIVE ParseValue(_, _), ParseMembers(_, _, _), ParseElements(_, _, _)
\* a value that starts at or after i
ParseValue(t, i) ==
    LET j == SkipSpace(t, i)
    IN  IF j > Len(t) THEN JsonFail
        ELSE IF t[j] = Q THEN ParseString(t, j)
        ELSE IF t[j] = "{"
        THEN LET k == SkipSpace(t, j + 1)
             IN  IF k <= Len(t) /\ t[k] = "}"
                 THEN JsonOk([kind |-> "obj", v |-> <<>>], k + 1)
                 ELSE ParseMembers(t, k, <<>>)
        ELSE IF t[j] = "["
        THEN LET k == SkipSpace(t, j + 1)
             IN  IF k <= Len(t) /\ t[k] = "]"
                 THEN JsonOk([kind |-> "arr", v |-> <<>>], k + 1)
                 ELSE ParseElements(t, k, <<>>)
        ELSE JsonFail

\* the members of an object from position i on, pairs being those before
ParseMembers(t, i, pairs) ==
    LET key == ParseString(t, SkipSpace(t, i))
    IN  IF ~key.ok THEN JsonFail
        ELSE LET c == SkipSpace(t, key.pos)
             IN  IF c > Len(t) \/ t[c] # ":" THEN JsonFail
                 ELSE LET val == ParseValue(t, c + 1)
                      IN  IF ~val.ok THEN JsonFail
                          ELSE LET m == SkipSpace(t, val.pos)
                                   now == Append(pairs, <<key.val.v, val.val>>)
                               IN  IF m > Len(t) THEN JsonFail
                                   ELSE IF t[m] = "," THEN ParseMembers(t, m + 1, now)
                                   ELSE IF t[m] = "}"
                                   THEN JsonOk([kind |-> "obj", v |-> now], m + 1)
                                   ELSE JsonFail

\* the elements of an array from position i on, elems being those before
ParseElements(t, i, elems) ==
    LET val == ParseValue(t, i)
    IN  IF ~val.ok THEN JsonFail
        ELSE LET m == SkipSpace(t, val.pos)
                 now == Append(elems, val.val)
             IN  IF m > Len(t) THEN JsonFail
                 ELSE IF t[m] = "," THEN ParseElements(t, m + 1, now)
                 ELSE IF t[m] = "]"
                 THEN JsonOk([kind |-> "arr", v |-> now], m + 1)
                 ELSE JsonFail

\* json.loads(text): one value and nothing but whitespace after it
JsonLoads(t) ==
    LET val == ParseValue(t, 1)
    IN  IF val.ok /\ SkipSpace(t, val.pos) > Len(t) THEN val ELSE JsonFail

\* key in data, data[key] for a parsed object (the last pair of a key counts)
HasKey(data, key) ==
    data.kind = "obj" /\ \E k \in 1..Len(data.v) : data.v[k][1] = key
GetKey(data, key) ==
    data.v[Max({k \in 1..Len(data.v) : data.v[k][1] = key})][2]

\* ''.join(ls) of lines that each end with their line break
RECURSIVE JoinLines(_)
JoinLines(ls) ==
    IF ls = <<>> THEN <<>> ELSE Head(ls) \o <<"\n">> \o JoinLines(Tail(ls))

\* s.count(u)
Count(s, u) == Cardinality({i \in 1..Len(s) : s[i] = u})

(***************************************************************************)
(* extract_components (extract_components.py)                              *)
(***************************************************************************)
Quoted(word) == <<Q, word, Q>>
ValueError(message) == [error |-> "ValueError", message |-> message]
Returned(value) == [value |-> value]

\* line 29
IsJsonStart(line) ==
    /\ StartsWith(Strip(line), <<"{">>)
    /\ \/ Contains(line, Quoted("components"))
       \/ Contains(line, Quoted("component"))
       \/ Contains(line, Quoted("application"))

\* line 42
BraceDelta(line) == Count(line, "{") - Count(line, "}")

StopWhenBalancedOrLater(count, i, start) == count = 0 /\ i >= start
\* line 44: the condition of the break
StopWhenBalanced(count, i, start) == count = 0 /\ i > start

\* lines 49-66: parse the accumulated text and pick the component list
ComponentsOf(text) ==
    LET data == JsonLoads(text)
    IN  IF ~data.ok THEN ValueError("Could not parse components JSON")
        ELSE LET found ==
                     IF HasKey(data.val, <<"components">>)
                     THEN Returned(GetKey(data.val, <<"components">>))
                     ELSE IF HasKey(data.val, <<"component">>)
                     THEN Returned([kind |-> "arr", v |-> <<GetKey(data.val, <<"component">>)>>])
                     ELSE ValueError("No 'components' or 'component' key found in JSON block")
             IN  IF "value" \in DOMAIN found /\ found.value.v = <<>>
                 THEN ValueError("Components array is empty")
                 ELSE found

\* lines 27-31: a line that does not open the block
FindSkip ==
    /\ ec_pc = "find"
    /\ ec_i <= Len(lines)
    /\ ~IsJsonStart(lines[ec_i])
    /\ ec_i' = ec_i + 1
    /\ UNCHANGED <<lines, ec_pc, json_start_idx, json_lines, brace_count, ec_ret>>
    /\ UNCHANGED notComponents

\* lines 27-31, 37-38: the line that opens the block
FindStart ==
    /\ ec_pc = "find"
    /\ ec_i <= Len(lines)
    /\ IsJsonStart(lines[ec_i])
    /\ json_start_idx' = ec_i
    /\ json_lines' = <<>>
    /\ brace_count' = 0
    /\ ec_pc' = "count"
    /\ UNCHANGED <<lines, ec_i, ec_ret>>
    /\ UNCHANGED notComponents

\* lines 33-34
FindNone ==
    /\ ec_pc = "find"
    /\ ec_i > Len(lines)
    /\ ec_ret' = ValueError("No components JSON block found in log file")
    /\ ec_pc' = "done"
    /\ UNCHANGED <<lines, ec_i, json_start_idx, json_lines, brace_count>>
    /\ UNCHANGED notComponents

\* lines 39-45: one iteration of the brace-counting loop
CountLine ==
    /\ ec_pc = "count"
    /\ ec_i <= Len(lines)
    /\ json_lines' = Append(json_lines, lines[ec_i])
    /\ brace_count' = brace_count + BraceDelta(lines[ec_i])
    /\ IF StopWhenBalanced(brace_count', ec_i, json_start_idx)
       THEN ec_pc' = "parse" /\ ec_i' = ec_i
       ELSE ec_pc' = ec_pc /\ ec_i' = ec_i + 1
    /\ UNCHANGED <<lines, json_start_idx, ec_ret>>
    /\ UNCHANGED notComponents

\* line 39: the loop runs out of lines
CountExhausted ==
    /\ ec_pc = "count"
    /\ ec_i > Len(lines)
    /\ ec_pc' = "parse"
    /\ UNCHANGED <<lines, ec_i, json_start_idx, json_lines, brace_count, ec_ret>>
    /\ UNCHANGED notComponents

\* lines 47-66
ParseBlock ==
    /\ ec_pc = "parse"
    /\ ec_ret' = ComponentsOf(JoinLines(json_lines))
    /\ ec_pc' = "done"
    /\ UNCHANGED <<lines, ec_i, json_start_idx, json_lines, brace_count>>
    /\ UNCHANGED notComponents

\* the lines a log with a components block is made of
ComponentLinePool ==
    { <<" ">>,
      <<"l", "o", "g">>,
      <<"{", Q, "components", Q, ":", " ", "[">>,
      <<" ", "{", Q, "name", Q, ":", Q, "a", Q, "}">>,
      <<" ", "{", Q, "name", Q, ":", Q, "b", Q, "}", ",">>,
      <<" ", "{", Q, "name", Q, ":", Q, "}", Q, "}">>,
      <<"]", "}">>,
      <<"{", Q, "components", Q, ":", "[", "{", Q, "name", Q, ":", Q, "a", Q, "}", "]", "}">>,
      <<"{", Q, "component", Q, ":", "{", Q, "name", Q, ":", Q, "a", Q, "}", "}">>,
      <<"{", Q, "application", Q, ":", Q, "x", Q, "}">> }

InitComponents ==
    /\ lines \in LogsOf(ComponentLinePool)
    /\ ec_pc = "find"
    /\ ec_i = 1
    /\ json_start_idx = 0
    /\ json_lines = <<>>
    /\ brace_count = 0
    /\ ec_ret = None
    /\ MatchIdle
    /\ ViolationsIdle
    /\ PolicyIdle
    /\ ImageRefsIdle
    /\ ScriptsIdle
    /\ ResolveIdle

NextComponents ==
    FindSkip \/ FindStart \/ FindNone \/ CountLine \/ CountExhausted \/ ParseBlock

SpecComponents == InitComponents /\ [][NextComponents]_vars

(***************************************************************************)
(* The JSON block of a log, read off its lines: it opens at the first line *)
(* that qualifies as its start and ends at the first line with which the   *)
(* text from the start on is one complete JSON document.                   *)
(***************************************************************************)
BlockStarts == {i \in 1..Len(lines) : IsJsonStart(lines[i])}
BlockStart == Min(BlockStarts)
BlockEnds ==
    {e \in BlockStart..Len(lines) :
        JsonLoads(JoinLines(SubSeq(lines, BlockStart, e))).ok}
\* a components/application block is present and syntactically valid
BlockIsValid == BlockStarts # {} /\ BlockEnds # {}
TrueBlockEnd == Min(BlockEnds)
BlockDocument == JsonLoads(JoinLines(SubSeq(lines, BlockStart, TrueBlockEnd))).val

\* the block describes components: a non-empty array under "components", or
\* else one component under "component"
BlockHasComponents ==
    IF HasKey(BlockDocument, <<"components">>)
    THEN LET cs == GetKey(BlockDocument, <<"components">>)
         IN  cs.kind = "arr" /\ cs.v # <<>>
    ELSE HasKey(BlockDocument, <<"component">>)
\* the components of the block, in source order
BlockComponents ==
    IF HasKey(BlockDocument, <<"components">>)
    THEN GetKey(BlockDocument, <<"components">>).v
    ELSE <<GetKey(BlockDocument, <<"component">>)>>

(***************************************************************************)
(* Claims about extract_components, checked under SpecComponents           *)
(***************************************************************************)
\* C9: for every log whose components block is present and syntactically
\* valid, extract_components returns the list of the block's components, each
\* once and in source order (the "components" array as is, a one-element list
\* for "component"), whatever lines follow the block, also when the whole
\* block sits on one line.
C9_AllComponentsRecovered ==
    (ec_pc = "done" /\ BlockIsValid /\ BlockHasComponents) =>
        ec_ret = Returned([kind |-> "arr", v |-> BlockComponents])

\* C10: for a valid block of several lines the brace counting accumulates
\* exactly the lines of the JSON object, no fewer and no more, also when
\* string values contain "{" or "}".
C10_BlockIsExactlyTheObject ==
    (ec_pc = "parse" /\ BlockIsValid /\ TrueBlockEnd > BlockStart) =>
        json_lines = SubSeq(lines, BlockStart, TrueBlockEnd)

\* the brace counter after the lines s..e
RECURSIVE RunningCount(_, _)
RunningCount(s, e) ==
    IF e < s THEN 0 ELSE RunningCount(s, e - 1) + BraceDelta(lines[e])

\* C17: accumulation stops at the first line at or after the starting line
\* where the running brace counter is zero; a block that balances on its
\* opening line is accumulated as that line alone.
C17_StopsAtFirstBalancedLine ==
    ec_pc = "parse" =>
        LET balanced == {e \in json_start_idx..Len(lines) :
                            RunningCount(json_start_idx, e) = 0}
            last == IF balanced = {} THEN Len(lines) ELSE Min(balanced)
        IN  json_lines = SubSeq(lines, json_start_idx, last)

(***************************************************************************)
(* extract_policy (extract_policy.py)                                      *)
(***************************************************************************)
\* s.endswith(p)
EndsWith(s, p) == OccursAt(s, p, Len(s) - Len(p) + 1)

\* ' '.join(vs)
RECURSIVE JoinSpace(_)
JoinSpace(vs) ==
    IF vs = <<>> THEN <<>>
    ELSE IF Len(vs) = 1 THEN vs[1]
    ELSE vs[1] \o <<" ">> \o JoinSpace(Tail(vs))

\* line.strip() == 'STEP-SHOW-CONFIG'
IsShowConfig(line) == Strip(line) = <<"STEP-SHOW-CONFIG">>

\* the stop test of the collecting loop
StopOnZeroCount(count, stripped) == count = 0
StopCollecting(count, stripped) == count = 0 /\ EndsWith(stripped, <<"}">>)

\* the outcome of parsing the collected lines
PolicyOf(collected) ==
    IF collected = <<>>
    THEN ValueError("Could not find JSON policy configuration")
    ELSE LET data == JsonLoads(JoinSpace(collected))
         IN  IF data.ok THEN Returned(data.val)
             ELSE ValueError("Failed to parse JSON policy configuration")

\* for i, line in enumerate(lines): a line that is not the marker
MarkerSkip ==
    /\ ep_pc = "find"
    /\ ep_i <= Len(lines)
    /\ ~IsShowConfig(lines[ep_i])
    /\ ep_i' = ep_i + 1
    /\ UNCHANGED <<lines, ep_pc, config_start_idx, policy_json_lines,
                   policy_brace_count, started, ep_ret>>
    /\ UNCHANGED notPolicy

\* the marker line: the section starts on the next line
MarkerFound ==
    /\ ep_pc = "find"
    /\ ep_i <= Len(lines)
    /\ IsShowConfig(lines[ep_i])
    /\ config_start_idx' = ep_i + 1
    /\ ep_i' = ep_i + 1
    /\ ep_pc' = "collect"
    /\ UNCHANGED <<lines, policy_json_lines, policy_brace_count, started, ep_ret>>
    /\ UNCHANGED notPolicy

\* config_start_idx is None: raise ValueError
MarkerMissing ==
    /\ ep_pc = "find"
    /\ ep_i > Len(lines)
    /\ ep_ret' = ValueError("STEP-SHOW-CONFIG section not found in log file")
    /\ ep_pc' = "done"
    /\ UNCHANGED <<lines, ep_i, config_start_idx, policy_json_lines,
                   policy_brace_count, started>>
    /\ UNCHANGED notPolicy

\* a line before the JSON has started: blank lines are skipped by the
\* continue, other lines fall through both ifs
CollectSkip ==
    /\ ep_pc = "collect"
    /\ ep_i <= Len(lines)
    /\ ~started
    /\ ~StartsWith(Strip(lines[ep_i]), <<"{">>)
    /\ ep_i' = ep_i + 1
    /\ UNCHANGED <<lines, ep_pc, config_start_idx, policy_json_lines,
                   policy_brace_count, started, ep_ret>>
    /\ UNCHANGED notPolicy

\* a line of the JSON: it is collected stripped, the counter is updated and
\* the loop breaks when the stop test holds
CollectLine ==
    /\ ep_pc = "collect"
    /\ ep_i <= Len(lines)
    /\ LET stripped == Strip(lines[ep_i])
           count == policy_brace_count + BraceDelta(stripped)
       IN  /\ started \/ StartsWith(stripped, <<"{">>)
           /\ started' = TRUE
           /\ policy_json_lines' = Append(policy_json_lines, stripped)
           /\ policy_brace_count' = count
           /\ IF StopCollecting(count, stripped)
              THEN ep_pc' = "parse" /\ ep_i' = ep_i
              ELSE ep_pc' = "collect" /\ ep_i' = ep_i + 1
    /\ UNCHANGED <<lines, config_start_idx, ep_ret>>
    /\ UNCHANGED notPolicy

\* the loop runs out of lines
CollectExhausted ==
    /\ ep_pc = "collect"
    /\ ep_i > Len(lines)
    /\ ep_pc' = "parse"
    /\ UNCHANGED <<lines, ep_i, config_start_idx, policy_json_lines,
                   policy_brace_count, started, ep_ret>>
    /\ UNCHANGED notPolicy

\* the check for an empty collection and json.loads
ParsePolicy ==
    /\ ep_pc = "parse"
    /\ ep_ret' = PolicyOf(policy_json_lines)
    /\ ep_pc' = "done"
    /\ UNCHANGED <<lines, ep_i, config_start_idx, policy_json_lines,
                   policy_brace_count, started>>
    /\ UNCHANGED notPolicy

\* the lines a log with a policy configuration is made of
PolicyLinePool ==
    { <<" ">>,
      <<"l", "o", "g">>,
      <<"STEP-SHOW-CONFIG", " ">>,
      <<" ", "{">>,
      <<Q, "policy", Q, ":", "{", Q, "a", Q, ":", Q, "b", Q, "}">>,
      <<"}">>,
      <<" ", "{", Q, "a", Q, ":", Q, "b", Q, "}", " ">>,
      <<"{", Q, "a", Q, ":", Q, "{", Q, "}">>,
      <<"{", "}", ",">> }

InitPolicy ==
    /\ lines \in LogsOf(PolicyLinePool)
    /\ ep_pc = "find"
    /\ ep_i = 1
    /\ config_start_idx = 0
    /\ policy_json_lines = <<>>
    /\ policy_brace_count = 0
    /\ started = FALSE
    /\ ep_ret = None
    /\ MatchIdle
    /\ ViolationsIdle
    /\ ComponentsIdle
    /\ ImageRefsIdle
    /\ ScriptsIdle
    /\ ResolveIdle

NextPolicy ==
    MarkerSkip \/ MarkerFound \/ MarkerMissing \/ CollectSkip \/ CollectLine
        \/ CollectExhausted \/ ParsePolicy

SpecPolicy == InitPolicy /\ [][NextPolicy]_vars

(***************************************************************************)
(* The policy block of a log, read off the lines                           *)
(***************************************************************************)
\* the lines equal to the marker once stripped
ShowConfigMarkers == {m \in 1..Len(lines) : Strip(lines[m]) = <<"STEP-SHOW-CONFIG">>}

\* the lines after the first marker whose stripped text starts with '{'
PolicyOpeners ==
    IF ShowConfigMarkers = {} THEN {}
    ELSE {k \in (Min(ShowConfigMarkers) + 1)..Len(lines) :
             Strip(lines[k]) # <<>> /\ Head(Strip(lines[k])) = "{"}

\* the lines at or after the first opener where the running counter is zero
\* and the stripped line ends with '}'
PolicyClosers ==
    {e \in Min(PolicyOpeners)..Len(lines) :
        /\ RunningCount(Min(PolicyOpeners), e) = 0
        /\ Strip(lines[e]) # <<>>
        /\ Strip(lines[e])[Len(Strip(lines[e]))] = "}"}

\* C18: collection starts at the first line after the STEP-SHOW-CONFIG marker
\* whose stripped text starts with '{' and ends at the first collected line
\* where the running counter is zero and the stripped line ends with '}'; no
\* later line is collected, and a line where the counter is zero but that
\* does not end with '}' does not stop collection.
C18_CollectedLines ==
    ep_pc \in {"parse", "done"} /\ ShowConfigMarkers # {} =>
        IF PolicyOpeners = {} THEN policy_json_lines = <<>>
        ELSE LET first == Min(PolicyOpeners)
                 last == IF PolicyClosers = {} THEN Len(lines) ELSE Min(PolicyClosers)
             IN  policy_json_lines = [k \in 1..(last - first + 1) |-> Strip(lines[first + k - 1])]

\* a line with a zero counter that does not end with '}' has been passed, and
\* the collection has stopped before the last line of the log
C18_Witness ==
    /\ ep_pc = "parse"
    /\ PolicyOpeners # {}
    /\ PolicyClosers # {}
    /\ Min(PolicyClosers) < Len(lines)
    /\ \E e \in Min(PolicyOpeners)..(Min(PolicyClosers) - 1) :
            RunningCount(Min(PolicyOpeners), e) = 0
    /\ Len(policy_json_lines) = Min(PolicyClosers) - Min(PolicyOpeners) + 1

\* C11: extract_policy never returns a partial result: when the brace counter
\* never returns to zero before the input ends, or the accumulated text is
\* not valid JSON, the call ends in a ValueError and returns no object.
C11_UnbalancedOrInvalidFails ==
    (/\ ep_pc = "done"
     /\ PolicyOpeners # {}
     /\ \/ \A e \in Min(PolicyOpeners)..Len(lines) : RunningCount(Min(PolicyOpeners), e) # 0
        \/ ~JsonLoads(JoinSpace(policy_json_lines)).ok)
    => "error" \in DOMAIN ep_ret

(***************************************************************************)
(* extract_image_refs (extract_image_refs.py)                              *)
(***************************************************************************)
\* line.strip() == 'STEP-VALIDATE'
IsValidate(line) == Strip(line) = <<"STEP-", "VALIDATE">>

\* stripped.replace('ImageRef:', '').strip()
RefOf(stripped) == Strip(ReplaceAll(stripped, "ImageRef:"))

\* image_ref and image_ref not in seen_refs
IsNewRefAlways(image_ref, seen) == image_ref # <<>>
IsNewRef(image_ref, seen) == image_ref # <<>> /\ image_ref \notin seen

\* the test that ends the header region at the next section marker
AtNextStep(stripped, i, start) == StartsWith(stripped, <<"STEP-">>) /\ i > start

\* what the function does with the references once the loop is over
RefsOutcomeLenient(refs) == Returned(refs)
RefsOutcome(refs) ==
    IF refs = <<>>
    THEN ValueError("No image references found in STEP-VALIDATE section")
    ELSE Returned(refs)

\* for i, line in enumerate(lines): a line that is not the marker
ValidateSkip ==
    /\ ir_pc = "find"
    /\ ir_i <= Len(lines)
    /\ ~IsValidate(lines[ir_i])
    /\ ir_i' = ir_i + 1
    /\ UNCHANGED <<lines, ir_pc, validate_start_idx, image_refs, in_components,
                   component_list, seen_refs, ir_ret>>
    /\ UNCHANGED notImageRefs

\* the marker line: the scan starts on the next line
ValidateFound ==
    /\ ir_pc = "find"
    /\ ir_i <= Len(lines)
    /\ IsValidate(lines[ir_i])
    /\ validate_start_idx' = ir_i + 1
    /\ ir_i' = ir_i + 1
    /\ ir_pc' = "scan"
    /\ UNCHANGED <<lines, image_refs, in_components, component_list, seen_refs, ir_ret>>
    /\ UNCHANGED notImageRefs

\* validate_start_idx is None: raise ValueError
ValidateMissing ==
    /\ ir_pc = "find"
    /\ ir_i > Len(lines)
    /\ ir_ret' = ValueError("STEP-VALIDATE section not found in log file")
    /\ ir_pc' = "done"
    /\ UNCHANGED <<lines, ir_i, validate_start_idx, image_refs, in_components,
                   component_list, seen_refs>>
    /\ UNCHANGED notImageRefs

\* the two breaks of the while loop, and its running out of lines
ScanBreak ==
    /\ ir_pc = "scan"
    /\ IF ir_i <= Len(lines)
       THEN LET stripped == Strip(lines[ir_i])
            IN  \/ StartsWith(stripped, <<"Results:">>)
                \/ AtNextStep(stripped, ir_i, validate_start_idx)
       ELSE TRUE
    /\ ir_pc' = "finish"
    /\ UNCHANGED <<lines, ir_i, validate_start_idx, image_refs, in_components,
                   component_list, seen_refs, ir_ret>>
    /\ UNCHANGED notImageRefs

\* a line of the header region that does not end it
InHeader(stripped) ==
    /\ ~StartsWith(stripped, <<"Results:">>)
    /\ ~AtNextStep(stripped, ir_i, validate_start_idx)

\* an ImageRef: line: the first if collects it; inside a sub-list the second
\* if then finds it already seen
ScanImageRef ==
    /\ ir_pc = "scan"
    /\ ir_i <= Len(lines)
    /\ LET stripped == Strip(lines[ir_i])
           image_ref == RefOf(stripped)
           fresh == IsNewRef(image_ref, seen_refs)
           seen == IF fresh THEN seen_refs \cup {image_ref} ELSE seen_refs
           again == in_components /\ IsNewRef(image_ref, seen)
       IN  /\ InHeader(stripped)
           /\ StartsWith(stripped, <<"ImageRef:">>)
           /\ image_refs' = IF fresh THEN Append(image_refs, image_ref) ELSE image_refs
           /\ component_list' = IF again THEN Append(component_list, image_ref)
                                ELSE component_list
           /\ seen_refs' = IF again THEN seen \cup {image_ref} ELSE seen
    /\ ir_i' = ir_i + 1
    /\ UNCHANGED <<lines, ir_pc, validate_start_idx, in_components, ir_ret>>
    /\ UNCHANGED notImageRefs

\* ScanComponents whose 'continue' is not preceded by i += 1
ScanComponentsNoAdvance ==
    /\ ir_pc = "scan"
    /\ ir_i <= Len(lines)
    /\ LET stripped == Strip(lines[ir_i])
       IN  /\ InHeader(stripped)
           /\ StartsWith(stripped, <<"COMPONENTS:">>)
    /\ in_components' = TRUE
    /\ UNCHANGED <<lines, ir_pc, ir_i, validate_start_idx, image_refs, component_list,
                   seen_refs, ir_ret>>
    /\ UNCHANGED notImageRefs

\* a COMPONENTS: line opens a sub-list
ScanComponents ==
    /\ ir_pc = "scan"
    /\ ir_i <= Len(lines)
    /\ LET stripped == Strip(lines[ir_i])
       IN  /\ InHeader(stripped)
           /\ StartsWith(stripped, <<"COMPONENTS:">>)
    /\ in_components' = TRUE
    /\ ir_i' = ir_i + 1
    /\ UNCHANGED <<lines, ir_pc, validate_start_idx, image_refs, component_list,
                   seen_refs, ir_ret>>
    /\ UNCHANGED notImageRefs

\* any other line: an empty one closes the open sub-list
ScanOther ==
    /\ ir_pc = "scan"
    /\ ir_i <= Len(lines)
    /\ LET stripped == Strip(lines[ir_i])
       IN  /\ InHeader(stripped)
           /\ ~StartsWith(stripped, <<"ImageRef:">>)
           /\ ~StartsWith(stripped, <<"COMPONENTS:">>)
           /\ IF in_components /\ stripped = <<>>
              THEN /\ image_refs' = image_refs \o component_list
                   /\ component_list' = <<>>
                   /\ in_components' = FALSE
              ELSE UNCHANGED <<image_refs, component_list, in_components>>
    /\ ir_i' = ir_i + 1
    /\ UNCHANGED <<lines, ir_pc, validate_start_idx, seen_refs, ir_ret>>
    /\ UNCHANGED notImageRefs

\* after the loop: the remaining sub-list is added, an empty result raises
FinishRefs ==
    /\ ir_pc = "finish"
    /\ image_refs' = image_refs \o component_list
    /\ ir_ret' = RefsOutcome(image_refs \o component_list)
    /\ ir_pc' = "done"
    /\ UNCHANGED <<lines, ir_i, validate_start_idx, in_components, component_list,
                   seen_refs>>
    /\ UNCHANGED notImageRefs

\* the lines a log with a validate section is made of
ImageRefLinePool ==
    { <<" ">>,
      <<"l", "o", "g">>,
      <<"STEP-", "VALIDATE", " ">>,
      <<"STEP-", "REPORT">>,
      <<"Results:">>,
      <<"ImageRef:", " ", "i">>,
      <<" ", "ImageRef:", "j", " ">>,
      <<"ImageRef:", " ">>,
      <<"COMPONENTS:">> }

InitImageRefs ==
    /\ lines \in LogsOf(ImageRefLinePool)
    /\ ir_pc = "find"
    /\ ir_i = 1
    /\ validate_start_idx = 0
    /\ image_refs = <<>>
    /\ in_components = FALSE
    /\ component_list = <<>>
    /\ seen_refs = {}
    /\ ir_ret = None
    /\ MatchIdle
    /\ ViolationsIdle
    /\ ComponentsIdle
    /\ PolicyIdle
    /\ ScriptsIdle
    /\ ResolveIdle

NextImageRefs ==
    ValidateSkip \/ ValidateFound \/ ValidateMissing \/ ScanBreak \/ ScanImageRef
        \/ ScanComponents \/ ScanOther \/ FinishRefs

SpecImageRefs == InitImageRefs /\ [][NextImageRefs]_vars

(***************************************************************************)
(* The validate section of a log, read off the lines                       *)
(***************************************************************************)
ValidateMarkers == {m \in 1..Len(lines) : Strip(lines[m]) = <<"STEP-", "VALIDATE">>}

\* the reference an ImageRef: line carries, <<>> for any other line
RefOnLine(k) ==
    LET stripped == Strip(lines[k])
    IN  IF stripped # <<>> /\ Head(stripped) = "ImageRef:"
        THEN Strip(Tail(stripped))
        ELSE <<>>

\* the lines after the first marker that carry the reference r
LinesOfRef(r) ==
    {k \in (Min(ValidateMarkers) + 1)..Len(lines) : RefOnLine(k) = r}

\* the line at which the header region ends: the first line after the marker
\* that starts with 'Results:' or 'STEP-', or the end of the log
HeaderEnd ==
    LET ends == {k \in (Min(ValidateMarkers) + 1)..Len(lines) :
                    /\ Strip(lines[k]) # <<>>
                    /\ Head(Strip(lines[k])) \in {"Results:", "STEP-"}}
    IN  IF ends = {} THEN Len(lines) + 1 ELSE Min(ends)

\* the lines that open a COMPONENTS: sub-list
SubListLines ==
    {k \in 1..Len(lines) : Strip(lines[k]) = <<"COMPONENTS:">>}

\* C12: the returned list never holds the same string twice, and its elements
\* are in the order of their first appearance in the validate section, also
\* for a reference listed both on a standalone ImageRef: line and inside a
\* COMPONENTS: sub-list.
C12_NoDuplicatesFirstAppearanceOrder ==
    ir_pc = "done" /\ "value" \in DOMAIN ir_ret =>
        LET refs == ir_ret.value
        IN  /\ \A a, b \in 1..Len(refs) : refs[a] = refs[b] => a = b
            /\ \A a \in 1..Len(refs) : LinesOfRef(refs[a]) # {}
            /\ \A a, b \in 1..Len(refs) :
                   a < b => Min(LinesOfRef(refs[a])) < Min(LinesOfRef(refs[b]))

\* a reference stands on a standalone line and again inside a sub-list, and
\* the call has returned it
C12_Witness ==
    /\ ir_pc = "done"
    /\ "value" \in DOMAIN ir_ret
    /\ \E r \in seen_refs : \E k1, k2 \in LinesOfRef(r), c \in SubListLines :
           /\ k1 < c /\ c < k2 /\ k2 < HeaderEnd
           /\ Len(SelectSeq(ir_ret.value, LAMBDA x : x = r)) = 1

\* C13: the call fails with ValueError when no line equals the STEP-VALIDATE
\* marker and when the section is found but no reference is collected; it
\* never returns an empty list.
C13_EmptyIsAnError ==
    ir_pc = "done" =>
        /\ ValidateMarkers = {} => ir_ret = ValueError("STEP-VALIDATE section not found in log file")
        /\ ValidateMarkers # {} /\ image_refs = <<>> =>
               ir_ret = ValueError("No image references found in STEP-VALIDATE section")
        /\ "value" \in DOMAIN ir_ret => ir_ret.value # <<>>

\* the section is found, it holds an ImageRef: line without a reference, and
\* the call has failed
C13_Witness ==
    /\ ir_pc = "done"
    /\ ValidateMarkers # {}
    /\ \E k \in (Min(ValidateMarkers) + 1)..(HeaderEnd - 1) : Strip(lines[k]) = <<"ImageRef:">>
    /\ "error" \in DOMAIN ir_ret

\* C20: only references found between the STEP-VALIDATE marker and the end of
\* the header region are returned, where the region ends at the first line
\* starting with 'Results:' or 'STEP-'; this includes a section marker on the
\* line directly after STEP-VALIDATE.
C20_OnlyHeaderRegionRefs ==
    ir_pc = "done" /\ "value" \in DOMAIN ir_ret =>
        \A a \in 1..Len(ir_ret.value) :
            \E k \in LinesOfRef(ir_ret.value[a]) : k < HeaderEnd

\* the two-shape reference algorithm from line k on: out is the output so
\* far, side the buffer of the open sub-scan, sub whether a sub-scan is open
RECURSIVE TwoShape(_, _, _, _)
TwoShape(k, out, side, sub) ==
    IF k >= HeaderEnd THEN out \o side
    ELSE LET stripped == Strip(lines[k])
             ref == RefOnLine(k)
             unseen == /\ ref # <<>>
                       /\ \A a \in 1..Len(out) : out[a] # ref
                       /\ \A a \in 1..Len(side) : side[a] # ref
         IN  IF stripped = <<>>
             THEN TwoShape(k + 1, out \o side, <<>>, FALSE)
             ELSE IF Head(stripped) = "COMPONENTS:"
             THEN TwoShape(k + 1, out, side, TRUE)
             ELSE IF Head(stripped) = "ImageRef:" /\ unseen
             THEN IF sub THEN TwoShape(k + 1, out, Append(side, ref), sub)
                  ELSE TwoShape(k + 1, Append(out, ref), side, sub)
             ELSE TwoShape(k + 1, out, side, sub)

\* C21: for every line sequence the outcome of extract_image_refs is that of
\* the two-shape reference algorithm run on the header region: the same list
\* of references, and an error exactly when the marker is absent or the
\* algorithm finds no reference.
C21_EqualsTwoShapeAlgorithm ==
    ir_pc = "done" =>
        IF ValidateMarkers = {} THEN "error" \in DOMAIN ir_ret
        ELSE LET expected == TwoShape(Min(ValidateMarkers) + 1, <<>>, <<>>, FALSE)
             IN  IF expected = <<>> THEN "error" \in DOMAIN ir_ret
                 ELSE ir_ret = [value |-> expected]

(***************************************************************************)
(* main() of extract_violations.py, extract_image_refs.py,                 *)
(* extract_components.py and extract_policy.py                             *)
(***************************************************************************)
Scripts == {"extract_violations", "extract_image_refs", "extract_components",
            "extract_policy"}

\* the command-line words
JsonFlag == <<"--", "json">>
FirstFlag == <<"--", "first">>
PrettyFlag == <<"--", "pretty">>
NameFlag == <<"--", "name">>

\* the files that exist; the log's content is the variable lines
ExistingFiles == {<<"l", "o", "g">>}

\* x in sys.argv
InArgv(x) == \E k \in 1..Len(argv) : argv[k] = x

\* args: the arguments left once the options are filtered out;
\* extract_violations.py drops only '--json', the others every '--' word
IsOption(a) ==
    IF script = "extract_violations" THEN a = JsonFlag
    ELSE a # <<>> /\ Head(a) = "--"
Args == SelectSeq(argv, LAMBDA a : ~IsOption(a))

\* filter_name: the word after '--name', None without one
FilterName ==
    LET at == {k \in 1..Len(argv) : argv[k] = NameFlag}
    IN  IF at # {} /\ Min(at) + 1 <= Len(argv) THEN Str(argv[Min(at) + 1]) ELSE None

\* the status an error branch of a main() leaves with
ErrorExit == 1

\* the status of a main() that runs to its end
NormalExitOne == ErrorExit
NormalExit == 0

\* print(..., file=sys.stderr) followed by sys.exit(1)
Fail(message) ==
    /\ stderr' = Append(stderr, message)
    /\ exit_code' = ErrorExit
    /\ main_pc' = "exited"
    /\ UNCHANGED <<script, argv, stdout>>

\* print(...) and main() running to its end
Succeed(printed) ==
    /\ stdout' = printed
    /\ exit_code' = NormalExit
    /\ main_pc' = "exited"
    /\ UNCHANGED <<script, argv, stderr>>

\* len(sys.argv) < 2
MainUsage ==
    /\ main_pc = "main"
    /\ argv = <<>>
    /\ Fail("Usage")
    /\ UNCHANGED <<lines, notScripts>>

\* not args
MainNoLogFile ==
    /\ main_pc = "main"
    /\ argv # <<>>
    /\ Args = <<>>
    /\ Fail("Error: No log file specified")
    /\ UNCHANGED <<lines, notScripts>>

\* not log_file.exists()
MainFileNotFound ==
    /\ main_pc = "main"
    /\ Args # <<>>
    /\ Args[1] \notin ExistingFiles
    /\ Fail("Error: File not found")
    /\ UNCHANGED <<lines, notScripts>>

\* main() reaches the call of its extractor
ReachesCall(name) ==
    /\ main_pc = "main"
    /\ script = name
    /\ Args # <<>>
    /\ Args[1] \in ExistingFiles
    /\ main_pc' = "call"
    /\ UNCHANGED <<lines, script, argv, exit_code, stdout, stderr>>

CallExtractViolations ==
    /\ ReachesCall("extract_violations")
    /\ ev_pc' = "scan"
    /\ UNCHANGED <<idx, violation, current_field, current_value, violations>>
    /\ UNCHANGED <<mvars, cvars, pvars, rvars, avars>>

CallExtractImageRefs ==
    /\ ReachesCall("extract_image_refs")
    /\ ir_pc' = "find"
    /\ UNCHANGED <<ir_i, validate_start_idx, image_refs, in_components,
                   component_list, seen_refs, ir_ret>>
    /\ UNCHANGED <<mvars, vvars, cvars, pvars, avars>>

CallExtractComponents ==
    /\ ReachesCall("extract_components")
    /\ ec_pc' = "find"
    /\ UNCHANGED <<ec_i, json_start_idx, json_lines, brace_count, ec_ret>>
    /\ UNCHANGED <<mvars, vvars, pvars, rvars, avars>>

CallExtractPolicy ==
    /\ ReachesCall("extract_policy")
    /\ ep_pc' = "find"
    /\ UNCHANGED <<ep_i, config_start_idx, policy_json_lines, policy_brace_count,
                   started, ep_ret>>
    /\ UNCHANGED <<mvars, vvars, cvars, rvars, avars>>

\* extract_violations.py: the list is printed, as JSON or as text, and
\* main() ends; nothing is tested on the way
ReturnViolations ==
    /\ main_pc = "call"
    /\ script = "extract_violations"
    /\ ev_pc = "done"
    /\ Succeed([json |-> InArgv(JsonFlag), value |-> violations])
    /\ UNCHANGED <<lines, notScripts>>

\* extract_image_refs.py: a ValueError ends in exit 1, and so does --first
\* without --json on an empty list
ReturnImageRefs ==
    /\ main_pc = "call"
    /\ script = "extract_image_refs"
    /\ ir_pc = "done"
    /\ IF "error" \in DOMAIN ir_ret
       THEN Fail(ir_ret.message)
       ELSE LET refs == IF InArgv(FirstFlag) THEN SubSeq(ir_ret.value, 1, 1)
                        ELSE ir_ret.value
            IN  IF ~InArgv(JsonFlag) /\ InArgv(FirstFlag) /\ refs = <<>>
                THEN Fail("No image references found")
                ELSE Succeed([json |-> InArgv(JsonFlag), value |-> refs])
    /\ UNCHANGED <<lines, notScripts>>

\* c.get('name') == filter_name
HasName(c, name) ==
    /\ c.kind = "obj"
    /\ HasKey(c, <<"name">>)
    /\ GetKey(c, <<"name">>).kind = "str"
    /\ GetKey(c, <<"name">>).v = name

\* extract_components.py: a ValueError ends in exit 1, and so does a --name
\* filter that leaves no component
ReturnComponents ==
    /\ main_pc = "call"
    /\ script = "extract_components"
    /\ ec_pc = "done"
    /\ IF "error" \in DOMAIN ec_ret
       THEN Fail(ec_ret.message)
       ELSE LET found == IF Truthy(FilterName)
                         THEN SelectSeq(ec_ret.value.v,
                                        LAMBDA c : HasName(c, FilterName.str))
                         ELSE ec_ret.value.v
            IN  IF Truthy(FilterName) /\ found = <<>>
                THEN Fail("Error: No component found with name")
                ELSE Succeed([json |-> InArgv(JsonFlag), value |-> found])
    /\ UNCHANGED <<lines, notScripts>>

\* extract_policy.py: a ValueError ends in exit 1; with --json the 'policy'
\* member is printed when the object has one
ReturnPolicy ==
    /\ main_pc = "call"
    /\ script = "extract_policy"
    /\ ep_pc = "done"
    /\ IF "error" \in DOMAIN ep_ret
       THEN Fail(ep_ret.message)
       ELSE LET data == ep_ret.value
            IN  Succeed([json |-> TRUE,
                         value |-> IF InArgv(JsonFlag) /\ HasKey(data, <<"policy">>)
                                   THEN GetKey(data, <<"policy">>)
                                   ELSE data])
    /\ UNCHANGED <<lines, notScripts>>
\* the logs and the command lines the scripts are run on
MaxScriptLines == 3

LogsUpTo(pool, n) == UNION {[1..k -> pool] : k \in 0..n}

LogFile == <<"l", "o", "g">>

\* command lines that end before the log is read
ShortArgvs == { <<>>, <<JsonFlag>>, <<FirstFlag, JsonFlag>>, <<<<"m", "i", "s", "s">>>> }

\* command lines that run the extractor of each script
RunArgvs(name) ==
    CASE name = "extract_violations" -> { <<LogFile>>, <<LogFile, JsonFlag>> }
      [] name = "extract_image_refs" -> { <<LogFile, FirstFlag>>, <<JsonFlag, LogFile>> }
      [] name = "extract_components" -> { <<LogFile, JsonFlag>>, <<LogFile, NameFlag, <<"b">>>> }
      [] name = "extract_policy" -> { <<LogFile>>, <<LogFile, JsonFlag, PrettyFlag>> }

PoolOf(name) ==
    CASE name = "extract_violations" -> ViolationLinePool
      [] name = "extract_image_refs" -> ImageRefLinePool
      [] name = "extract_components" -> ComponentLinePool
      [] name = "extract_policy" -> PolicyLinePool

InitScripts ==
    /\ script \in Scripts
    /\ \/ argv \in ShortArgvs /\ lines = <<>>
       \/ argv \in RunArgvs(script) /\ lines \in LogsUpTo(PoolOf(script), MaxScriptLines)
    /\ main_pc = "main"
    /\ exit_code = None
    /\ stdout = None
    /\ stderr = <<>>
    /\ MatchIdle
    /\ ViolationsIdle
    /\ ComponentsIdle
    /\ PolicyIdle
    /\ ImageRefsIdle
    /\ ResolveIdle

NextScripts ==
    \/ MainUsage \/ MainNoLogFile \/ MainFileNotFound
    \/ CallExtractViolations \/ CallExtractImageRefs
    \/ CallExtractComponents \/ CallExtractPolicy
    \/ NextViolations \/ NextImageRefs \/ NextComponents \/ NextPolicy
    \/ ReturnViolations \/ ReturnImageRefs \/ ReturnComponents \/ ReturnPolicy

SpecScripts == InitScripts /\ [][NextScripts]_vars

(***************************************************************************)
(* Claims about the exit status of the scripts, checked under SpecScripts  *)
(***************************************************************************)
\* the command-line words that are not options
LogWords == {k \in 1..Len(argv) : argv[k] = <<>> \/ Head(argv[k]) # "--"}

\* the command line names an existing log, which main() then reads
ReadsLog == LogWords # {} /\ argv[Min(LogWords)] = <<"l", "o", "g">>

\* an image reference stands on some line after the STEP-VALIDATE marker
SomeRefAfterMarker ==
    /\ ValidateMarkers # {}
    /\ \E k \in (Min(ValidateMarkers) + 1)..Len(lines) : RefOnLine(k) # <<>>

MaxScanLines == 2

InitScan ==
    /\ script \in Scripts
    /\ argv = <<LogFile>>
    /\ lines \in LogsUpTo(PoolOf(script), MaxScanLines)
    /\ main_pc = "main"
    /\ exit_code = None
    /\ stdout = None
    /\ stderr = <<>>
    /\ MatchIdle
    /\ ViolationsIdle
    /\ ComponentsIdle
    /\ PolicyIdle
    /\ ImageRefsIdle
    /\ ResolveIdle

NextScan ==
    \/ CallExtractViolations \/ CallExtractImageRefs
    \/ CallExtractComponents \/ CallExtractPolicy
    \/ NextViolations \/ NextImageRefs
    \/ FindSkip \/ FindStart \/ FindNone \/ CountLine \/ CountExhausted
    \/ MarkerSkip \/ MarkerFound \/ MarkerMissing
    \/ CollectSkip \/ CollectLine \/ CollectExhausted

SpecScanFair == InitScan /\ [][NextScan]_vars /\ WF_vars(NextScan)

\* the loops of the extractor that was called have ended
ScanEnded ==
    /\ main_pc = "call"
    /\ ev_pc = "done"
    /\ ir_pc = "done"
    /\ ec_pc \in {"parse", "done"}
    /\ ep_pc \in {"parse", "done"}

\* C24: parse_violation_block returns an index beyond the start line of its
\* block and not beyond the end of the lines, and extract_violations goes on
\* from it, so no line is a block start twice; each iteration of the loops of
\* extract_image_refs, extract_components and extract_policy moves on by one
\* line or leaves the loop, the COMPONENTS: branch included; no index passes
\* the end of the lines; the loops of every extractor come to an end.
C24_ScannersTerminate ==
    /\ [][/\ (ev_pc = "scan" /\ ev_pc' # "done") =>
                /\ idx' = idx + 1
                /\ ev_pc' = "block" <=> IsStartLine(lines[idx])
          /\ (ev_pc = "block" /\ ev_pc' = "block") => idx' = idx + 1
          /\ (ev_pc = "block" /\ ev_pc' = "scan") =>
                /\ idx' <= Len(lines) + 1
                /\ \E k \in 1..(idx' - 1) :
                      /\ IsStartLine(lines[k])
                      /\ MetInScanning(k)
                      /\ \A b \in (k + 1)..(idx' - 1) : ~IsBlankLine(lines[b])
          /\ (ir_pc \in {"find", "scan"} /\ ir_pc' \in {"find", "scan"}) =>
                ir_i' = ir_i + 1
          /\ (ec_pc \in {"find", "count"} /\ ec_pc' = ec_pc) => ec_i' = ec_i + 1
          /\ (ep_pc \in {"find", "collect"} /\ ep_pc' \in {"find", "collect"}) =>
                ep_i' = ep_i + 1]_vars
    /\ [](/\ idx \in 1..(Len(lines) + 1)
          /\ ir_i \in 1..(Len(lines) + 1)
          /\ ec_i \in 1..(Len(lines) + 1)
          /\ ep_i \in 1..(Len(lines) + 1))
    /\ <>ScanEnded

\* the scan of extract_image_refs has ended after it went through a
\* COMPONENTS: line to the end of the longest log
C24_Witness ==
    /\ ScanEnded
    /\ script = "extract_image_refs"
    /\ in_components
    /\ Len(lines) = MaxScanLines
    /\ ir_i = Len(lines) + 1

(***************************************************************************)
(* main() and generate_fix_proposals (auto_resolve.py)                     *)
(***************************************************************************)
Text(t) == [text |-> t]

\* subprocess.run(["python3", name + ".py", str(log_file), ...]): a fresh
\* process runs main() of the script. The script is named by a relative
\* path: when the working directory does not hold it, python3 prints
\* "can't open file" and exits with status 2.
Run(name, options) ==
    /\ script' = name
    /\ argv' = <<log_arg.str>> \o options
    /\ stdout' = None
    /\ IF scripts_in_cwd
       THEN /\ main_pc' = "main"
            /\ exit_code' = None
            /\ stderr' = <<>>
       ELSE /\ main_pc' = "exited"
            /\ exit_code' = 2
            /\ stderr' = <<"can't open file">>

\* check=True raises CalledProcessError on a non-zero status, and
\* json.loads raises JSONDecodeError on output that is not JSON
SubprocessFailed == exit_code # 0 \/ ~stdout.json

NoViolationsExitOne == ErrorExit
\* sys.exit(0) after "No violations found in log file."
NoViolationsExit == 0

\* truthiness of a value json.loads returned
JsonTruthy(data) == data.v # <<>>

\* group_violations_by_rule: groups keyed by rule, in insertion order
RECURSIVE GroupInto(_, _)
GroupInto(grouped, vs) ==
    IF vs = <<>> THEN grouped
    ELSE LET v == Head(vs)
             at == {k \in 1..Len(grouped) : grouped[k][1] = v["rule"]}
         IN  IF at = {}
             THEN GroupInto(Append(grouped, <<v["rule"], <<v>>>>), Tail(vs))
             ELSE GroupInto([grouped EXCEPT ![Min(at)][2] = Append(@, v)], Tail(vs))
group_violations_by_rule(vs) == GroupInto(<<>>, vs)

\* the solutions of a group: stripped, non-empty, each once
RECURSIVE SolutionsOf(_, _)
SolutionsOf(solutions, vs) ==
    IF vs = <<>> THEN solutions
    ELSE LET solution == Strip(Head(vs)["solution"].str)
         IN  IF solution # <<>> /\ \A k \in 1..Len(solutions) : solutions[k] # solution
             THEN SolutionsOf(Append(solutions, solution), Tail(vs))
             ELSE SolutionsOf(solutions, Tail(vs))

SolutionText(vs) ==
    IF SolutionsOf(<<>>, vs) = <<>> THEN Text("No solution provided in violation")
    ELSE [joined |-> Join(SolutionsOf(<<>>, vs))]

\* policy_config_str
PolicyConfigStr(config) ==
    IF config # None /\ JsonTruthy(config) THEN [dumps |-> config]
    ELSE Text("Policy configuration not available")

\* a looked-up document, or the placeholder that stands for it
OrPlaceholder(found, document, placeholder) ==
    IF found THEN Text(document) ELSE Text(placeholder)

\* fetch_policy_rule and fetch_policy_rule_test return None at once for a
\* rule name without '.'; otherwise the document is found or not
CanBeFound(rule_name) ==
    IF Contains(rule_name, <<".">>) THEN BOOLEAN ELSE {FALSE}

\* len(sys.argv) < 2
ResolveUsage ==
    /\ resolve_pc = "main"
    /\ log_arg = None
    /\ resolve_exit' = 1
    /\ resolve_pc' = "exited"
    /\ UNCHANGED <<log_arg, scripts_in_cwd, found_violations, session, policy_config,
                   grouped_violations, group_idx, instructed, proposals, resolve_out>>
    /\ UNCHANGED <<lines, notResolve>>

\* not log_file.exists()
ResolveFileNotFound ==
    /\ resolve_pc = "main"
    /\ log_arg # None
    /\ log_arg.str \notin ExistingFiles
    /\ resolve_exit' = 1
    /\ resolve_pc' = "exited"
    /\ UNCHANGED <<log_arg, scripts_in_cwd, found_violations, session, policy_config,
                   grouped_violations, group_idx, instructed, proposals, resolve_out>>
    /\ UNCHANGED <<lines, notResolve>>

\* extract_violations(log_file): the subprocess starts
RunExtractViolations ==
    /\ resolve_pc = "main"
    /\ log_arg # None
    /\ log_arg.str \in ExistingFiles
    /\ Run("extract_violations", <<JsonFlag>>)
    /\ resolve_pc' = "violations"
    /\ UNCHANGED <<log_arg, scripts_in_cwd, found_violations, session, policy_config,
                   grouped_violations, group_idx, instructed, proposals,
                   resolve_exit, resolve_out>>
    /\ UNCHANGED <<lines, mvars, vvars, cvars, pvars, rvars>>

\* the subprocess has ended: a failure gives [], and without violations
\* main() prints the message and exits with status 0
GotViolations ==
    /\ resolve_pc = "violations"
    /\ main_pc = "exited"
    /\ LET vs == IF SubprocessFailed THEN <<>> ELSE stdout.value
       IN  /\ found_violations' = vs
           /\ IF vs = <<>>
              THEN /\ resolve_out' = Text("No violations found in log file.")
                   /\ resolve_exit' = NoViolationsExit
                   /\ resolve_pc' = "exited"
              ELSE /\ resolve_pc' = "session"
                   /\ UNCHANGED <<resolve_out, resolve_exit>>
    /\ UNCHANGED <<log_arg, scripts_in_cwd, session, policy_config, grouped_violations, group_idx,
                   instructed, proposals>>
    /\ UNCHANGED <<lines, notResolve>>

\* mellea.start_session(), then extract_policy_config(log_file): the
\* subprocess starts
RunExtractPolicy ==
    /\ resolve_pc = "session"
    /\ session' = TRUE
    /\ Run("extract_policy", <<JsonFlag, PrettyFlag>>)
    /\ resolve_pc' = "policy"
    /\ UNCHANGED <<log_arg, scripts_in_cwd, found_violations, policy_config, grouped_violations,
                   group_idx, instructed, proposals, resolve_exit, resolve_out>>
    /\ UNCHANGED <<lines, mvars, vvars, cvars, pvars, rvars>>

\* the subprocess has ended: a failure gives None
GotPolicy ==
    /\ resolve_pc = "policy"
    /\ main_pc = "exited"
    /\ policy_config' = IF SubprocessFailed THEN None ELSE stdout.value
    /\ resolve_pc' = "fetch"
    /\ UNCHANGED <<log_arg, scripts_in_cwd, found_violations, session, grouped_violations, group_idx,
                   instructed, proposals, resolve_exit, resolve_out>>
    /\ UNCHANGED <<lines, notResolve>>

\* extract_components(log_file): the subprocess starts
RunExtractComponents ==
    /\ resolve_pc = "fetch"
    /\ Run("extract_components", <<JsonFlag>>)
    /\ resolve_pc' = "components"
    /\ UNCHANGED <<log_arg, scripts_in_cwd, found_violations, session, policy_config,
                   grouped_violations, group_idx, instructed, proposals,
                   resolve_exit, resolve_out>>
    /\ UNCHANGED <<lines, mvars, vvars, cvars, pvars, rvars>>

\* the subprocess has ended (its result is not used further on), and the
\* violations are grouped
GotComponents ==
    /\ resolve_pc = "components"
    /\ main_pc = "exited"
    /\ grouped_violations' = group_violations_by_rule(found_violations)
    /\ group_idx' = 1
    /\ resolve_pc' = "loop"
    /\ UNCHANGED <<log_arg, scripts_in_cwd, found_violations, session, policy_config, instructed,
                   proposals, resolve_exit, resolve_out>>
    /\ UNCHANGED <<lines, notResolve>>

\* one turn of the loop over the groups whose violations all carry a
\* solution string: the context is put together, m.instruct is called and
\* the proposal is appended
GenerateProposal ==
    /\ resolve_pc = "loop"
    /\ group_idx <= Len(grouped_violations)
    /\ LET rule == grouped_violations[group_idx][1]
           rule_violations == grouped_violations[group_idx][2]
       IN  /\ \A k \in 1..Len(rule_violations) : rule_violations[k]["solution"] # None
           /\ \E rule_found, test_found \in CanBeFound(rule.str),
                 crd_found, run_found \in BOOLEAN :
                instructed' = Append(instructed,
                    [violation |-> rule_violations,
                     policy_rule |-> OrPlaceholder(rule_found, "policy rule source",
                                        "Policy rule source not available"),
                     policy_rule_test |-> OrPlaceholder(test_found, "policy rule tests",
                                        "Policy rule tests not available"),
                     solution |-> SolutionText(rule_violations),
                     crd_schema |-> OrPlaceholder(crd_found, "CRD schema",
                                        "CRD schema not available"),
                     policy_config |-> PolicyConfigStr(policy_config),
                     pipeline_run |-> OrPlaceholder(run_found, "pipelineRun definition",
                                        "PipelineRun definition not available (no example found in pipelineRuns folder)")])
           /\ \E proposal_text \in {"result", "sample", "Failed to generate proposal"} :
                proposals' = Append(proposals,
                    [rule |-> rule,
                     violation_count |-> Len(rule_violations),
                     violations |-> rule_violations,
                     image_ref |-> rule_violations[1]["image_ref"],
                     proposal |-> proposal_text])
    /\ group_idx' = group_idx + 1
    /\ UNCHANGED <<resolve_pc, log_arg, scripts_in_cwd, found_violations, session, policy_config,
                   grouped_violations, resolve_exit, resolve_out>>
    /\ UNCHANGED <<lines, notResolve>>

\* a violation of the group has solution None: v.get("solution", "") returns
\* None, .strip() raises AttributeError, nothing catches it and the
\* interpreter exits with status 1
SolutionStripRaises ==
    /\ resolve_pc = "loop"
    /\ group_idx <= Len(grouped_violations)
    /\ \E k \in 1..Len(grouped_violations[group_idx][2]) :
            grouped_violations[group_idx][2][k]["solution"] = None
    /\ resolve_out' = Text("AttributeError: 'NoneType' object has no attribute 'strip'")
    /\ resolve_exit' = 1
    /\ resolve_pc' = "exited"
    /\ UNCHANGED <<log_arg, scripts_in_cwd, found_violations, session, policy_config,
                   grouped_violations, group_idx, instructed, proposals>>
    /\ UNCHANGED <<lines, notResolve>>

\* the loop is over: the proposals are printed, then "Done!"
ResolveDone ==
    /\ resolve_pc = "loop"
    /\ group_idx > Len(grouped_violations)
    /\ resolve_out' = Text("Done!")
    /\ resolve_exit' = 0
    /\ resolve_pc' = "exited"
    /\ UNCHANGED <<log_arg, scripts_in_cwd, found_violations, session, policy_config,
                   grouped_violations, group_idx, instructed, proposals>>
    /\ UNCHANGED <<lines, notResolve>>

\* the lines of a log that holds violations and a policy configuration
MaxResolveLines == 4

ResolveLinePool ==
    { <<" ">>,
      <<"X", " ", "[Violation]", " ", "r">>,
      <<" ", "X", " ", " ", "[Violation]", " ", "p", ".", "q", " ">>,
      <<"Solution:", " ", "s", " ">>,
      <<"STEP-SHOW-CONFIG", " ">>,
      <<"{", Q, "component", Q, ":", "{", Q, "name", Q, ":", Q, "a", Q, "}", "}">>,
      <<" ", "{">> }

InitResolve ==
    /\ \/ log_arg \in {None, Str(<<"m", "i", "s", "s">>)} /\ lines = <<>>
       \/ log_arg = Str(LogFile) /\ lines \in LogsUpTo(ResolveLinePool, MaxResolveLines)
    /\ scripts_in_cwd \in BOOLEAN
    /\ resolve_pc = "main"
    /\ found_violations = <<>>
    /\ session = FALSE
    /\ policy_config = None
    /\ grouped_violations = <<>>
    /\ group_idx = 1
    /\ instructed = <<>>
    /\ proposals = <<>>
    /\ resolve_exit = None
    /\ resolve_out = None
    /\ MatchIdle
    /\ ViolationsIdle
    /\ ComponentsIdle
    /\ PolicyIdle
    /\ ImageRefsIdle
    /\ ScriptsIdle

NextResolve ==
    \/ ResolveUsage \/ ResolveFileNotFound
    \/ RunExtractViolations \/ CallExtractViolations \/ NextViolations
    \/ ReturnViolations \/ GotViolations
    \/ RunExtractPolicy \/ CallExtractPolicy \/ NextPolicy \/ ReturnPolicy \/ GotPolicy
    \/ RunExtractComponents \/ CallExtractComponents \/ NextComponents
    \/ ReturnComponents \/ GotComponents
    \/ GenerateProposal \/ SolutionStripRaises \/ ResolveDone

SpecAutoResolve == InitResolve /\ [][NextResolve]_vars

(***************************************************************************)
(* Claims about auto_resolve, checked under SpecAutoResolve                *)
(***************************************************************************)
\* the log holds a violation-start line
LogHasViolations == \E k \in 1..Len(lines) : IsStartLine(lines[k])

\* the stripped lines from the first opener of the policy block to line e
PolicyText(e) ==
    JoinSpace([k \in 1..(e - Min(PolicyOpeners) + 1) |->
                   Strip(lines[Min(PolicyOpeners) + k - 1])])

\* the log holds a STEP-SHOW-CONFIG marker followed by a JSON document
PolicyBlockIsValid ==
    /\ ShowConfigMarkers # {}
    /\ PolicyOpeners # {}
    /\ \E e \in Min(PolicyOpeners)..Len(lines) : JsonLoads(PolicyText(e)).ok

\* C15: violation extraction and policy-config extraction are independent:
\* on a log that has violations but no valid policy-config block, run from
\* the directory of the extractor scripts, the run is not aborted, the
\* violations are returned and every group of them is processed, and the
\* policy configuration handed to each fix-generation call is the marker
\* "Policy configuration not available".
C15_ViolationsProcessedWithoutPolicy ==
    (/\ resolve_pc = "exited"
     /\ log_arg = Str(<<"l", "o", "g">>)
     /\ scripts_in_cwd
     /\ LogHasViolations
     /\ ~PolicyBlockIsValid)
    => /\ found_violations # <<>>
       /\ resolve_exit = 0
       /\ proposals # <<>>
       /\ Len(proposals) = Len(grouped_violations)
       /\ \A k \in 1..Len(instructed) :
              instructed[k].policy_config = [text |-> "Policy configuration not available"]

\* the rules of the violations main() found
RulesFound == {found_violations[k]["rule"] : k \in 1..Len(found_violations)}

\* index of the first violation found that carries the rule
FirstWith(rule) ==
    Min({k \in 1..Len(found_violations) : found_violations[k]["rule"] = rule})

\* the groups are a partition of the violations found: one group per rule, in
\* order of the first appearance of the rule, each holding the violations of
\* its rule in input order
GroupsArePartition ==
    /\ Len(grouped_violations) = Cardinality(RulesFound)
    /\ \A g \in 1..Len(grouped_violations) :
          LET rule == grouped_violations[g][1]
          IN  /\ rule \in RulesFound
              /\ grouped_violations[g][2]
                     = SelectSeq(found_violations, LAMBDA v : v["rule"] = rule)
              /\ \A h \in 1..(g - 1) :
                     FirstWith(grouped_violations[h][1]) < FirstWith(rule)

RECURSIVE CountSum(_)
CountSum(ps) == IF ps = <<>> THEN 0 ELSE Head(ps).violation_count + CountSum(Tail(ps))

\* C26: when generate_fix_proposals has run on the violations found, the
\* groups are a partition of them by rule (order of first appearance, input
\* order inside), there is exactly one proposal per distinct rule, in the order
\* of the groups, and the violation_count values sum to the number of
\* violations.
C26_OneProposalPerRule ==
    (resolve_pc = "exited" /\ found_violations # <<>>) =>
        /\ GroupsArePartition
        /\ Len(proposals) = Cardinality(RulesFound)
        /\ \A k \in 1..Len(proposals) : proposals[k].rule = grouped_violations[k][1]
        /\ CountSum(proposals) = Len(found_violations)

\* the subprocess of the violation-extraction step ended with a non-zero
\* status or printed something that is not JSON
ExtractionStepFailed ==
    /\ script = "extract_violations"
    /\ main_pc = "exited"
    /\ exit_code # 0 \/ ~stdout.json

\* how a run on a log with zero violations ends
EndsAsWithoutViolations ==
    /\ found_violations = <<>>
    /\ resolve_out = [text |-> "No violations found in log file."]
    /\ resolve_exit = 0
    /\ session = FALSE
    /\ instructed = <<>>
    /\ proposals = <<>>

\* C27: when the violation-extraction step fails (the subprocess exits with
\* a non-zero status or its output is not JSON), the violation list is empty
\* and the run ends as it does on a log without violations: the message
\* "No violations found in log file.", exit status 0, no session started, no
\* fix-generation call and no proposal.
C27_FailedExtractionEndsAsEmpty ==
    /\ (resolve_pc \notin {"idle", "main", "violations"} /\ ExtractionStepFailed)
           => (resolve_pc = "exited" /\ EndsAsWithoutViolations)
    /\ (/\ resolve_pc = "exited"
        /\ log_arg = Str(<<"l", "o", "g">>)
        /\ scripts_in_cwd
        /\ ~LogHasViolations)
           => EndsAsWithoutViolations

\* a log that holds a violation was given, the scripts were not found by
\* python3, and the run has ended as if there were no violation
C27_Witness ==
    /\ resolve_pc = "exited"
    /\ LogHasViolations
    /\ ExtractionStepFailed
    /\ exit_code = 2
    /\ EndsAsWithoutViolations

\* C28: a reference document that cannot be obtained does not abort proposal
\* generation. For every group whose rule name has no '.', so that neither
\* the rule source nor the rule tests can be looked up, a proposal entry is
\* produced, and the fix-generation call for it was given the placeholders
\* "Policy rule source not available" and "Policy rule tests not available".
C28_FailedLookupKeepsProposal ==
    (resolve_pc = "exited" /\ found_violations # <<>>) =>
        \A g \in 1..Len(grouped_violations) :
            (\A u \in 1..Len(grouped_violations[g][1].str) :
                 grouped_violations[g][1].str[u] # ".")
            => \E k \in 1..Len(proposals) :
                  /\ proposals[k].rule = grouped_violations[g][1]
                  /\ k <= Len(instructed)
                  /\ instructed[k].policy_rule
                         = [text |-> "Policy rule source not available"]
                  /\ instructed[k].policy_rule_test
                         = [text |-> "Policy rule tests not available"]

====
